---- MODULE Spec2Model ----
(***************************************************************************)
(* Model of controllers/util/solr_util.go of the Solr operator: the        *)
(* generators that derive the Kubernetes objects of one SolrCloud (labels, *)
(* selectors, ingress rules, the backup section of solr.xml, the security  *)
(* bootstrap secrets) and the reconcile pass that calls the secret         *)
(* bootstrap.                                                               *)
(*                                                                         *)
(* Conventions.  A Go string or []byte on which the code computes (hash,   *)
(* sort, prefix, concatenation) is a sequence of byte values; a string     *)
(* that is only compared or used as a map key is a TLA+ string.  A Go      *)
(* pointer or optional block is a set with at most one element (Nil is the *)
(* empty set).  A Go map is a function; a nil map is the empty function.   *)
(***************************************************************************)
EXTENDS Integers, Sequences, FiniteSets, TLC

VARIABLES
    solrCloud,   \* the SolrCloud object handed to the generators
    out,         \* the object returned by the latest generator call, with its inputs
    prev,        \* the object returned by the call before that, kept when the
                 \* latest call repeated it (same generator, same arguments)
    secrets,     \* the persisted secrets, by secret name (the caller's store)
    pc,          \* position of each reconcile pass
    found,       \* per pass: the bootstrap secret was found by the existence check
    generated,   \* per pass: the pair returned by GenerateBasicAuthSecretWithBootstrap
    clock,       \* time.Now().UnixNano(), the seed of the global random source
    issued,      \* per instance: every credential set a pass has generated (history)
    overlapped,  \* per instance: a pass made its existence check while another
                 \* pass of the instance was between its check and its write (history)
    firstSelector, \* the pod selector of the first StatefulSet generated (history)
    zk,          \* the coordination service: the chroot exists, the content of /security.json
    bootstrap,   \* the content of security.json in the bootstrap secret
    setup,       \* per pod: position in its initialization commands, the
                 \* SECURITY_JSON it was started with, the ZK_SECURITY_JSON it read
    settled      \* a chroot command has completed since the coordination
                 \* service was last changed from outside (history)

vars == <<solrCloud, out, prev, secrets, pc, found, generated, clock, issued,
          overlapped, firstSelector, zk, bootstrap, setup, settled>>

(***************************************************************************)
(* Bounds of the model.                                                    *)
(***************************************************************************)
MaxClock == 3        \* number of distinct clock readings
MaxDomains == 1      \* additional domain names of the external addressability
IntBits == 8         \* width of the model's int64: its arithmetic wraps as Go's does
MaxNodes == 2        \* pod names handed to GenerateIngress
MaxRepos == 2        \* backup repositories of one SolrCloud
MaxPods == 2         \* pods that run their initialization commands
MaxSeed == 19        \* states of the global random source a salt is drawn in

Nil == {}
Some(x) == {x}
Get(o) == CHOOSE x \in o : TRUE

EmptyMap == <<>>

(***************************************************************************)
(* Byte strings.                                                           *)
(***************************************************************************)
\* strings.HasPrefix
HasPrefix(s, p) == Len(s) >= Len(p) /\ SubSeq(s, 1, Len(p)) = p

\* Go's string comparison a < b: bytewise lexicographic
RECURSIVE StrLess(_, _)
StrLess(a, b) ==
    IF Len(b) = 0 THEN FALSE
    ELSE IF Len(a) = 0 THEN TRUE
    ELSE IF a[1] # b[1] THEN a[1] < b[1]
    ELSE StrLess(Tail(a), Tail(b))

\* insert x into the sorted list l
RECURSIVE InsertSorted(_, _)
InsertSorted(x, l) ==
    IF Len(l) = 0 THEN <<x>>
    ELSE IF StrLess(l[1], x) THEN <<l[1]>> \o InsertSorted(x, Tail(l))
    ELSE <<x>> \o l

\* sort.Strings
RECURSIVE SortStrings(_)
SortStrings(l) ==
    IF Len(l) = 0 THEN <<>> ELSE InsertSorted(l[1], SortStrings(Tail(l)))

\* strings.Join
RECURSIVE Join(_, _)
Join(l, sep) ==
    IF Len(l) = 0 THEN <<>>
    ELSE IF Len(l) = 1 THEN l[1]
    ELSE l[1] \o sep \o Join(Tail(l), sep)

Range(s) == {s[i] : i \in DOMAIN s}

(***************************************************************************)
(* crypto/sha256, encoding/base64 and math/rand of the Go library.         *)
(* Sha256 stands for sha256.Sum256: a 32-byte digest computed from every   *)
(* byte of the input in order (a polynomial hash, not the real SHA-256).   *)
(* Base64 is the real standard encoding with padding.  The random source   *)
(* is a linear congruential generator in place of Go's.                    *)
(***************************************************************************)
\* the digest state after the bytes bs[lo..hi], folded in order in two halves
RECURSIVE HashFold(_, _, _, _)
HashFold(h, bs, lo, hi) ==
    IF lo > hi THEN h
    ELSE IF lo = hi THEN (h * 33 + bs[lo] + 1) % 65521
    ELSE LET mid == (lo + hi) \div 2
             h1 == HashFold(h, bs, lo, mid)
         IN  IF h1 >= 0 THEN HashFold(h1, bs, mid + 1, hi) ELSE h1

Sha256(bs) ==
    LET h == HashFold(5381, bs, 1, Len(bs))
    IN  [i \in 1..32 |-> ((h + i) * (2 * i + 7) + (h \div 256)) % 256]

B64Char(v) ==
    IF v < 26 THEN 65 + v
    ELSE IF v < 52 THEN 97 + (v - 26)
    ELSE IF v < 62 THEN 48 + (v - 52)
    ELSE IF v = 62 THEN 43 ELSE 47

B64Value(c) ==
    IF c >= 65 /\ c <= 90 THEN c - 65
    ELSE IF c >= 97 /\ c <= 122 THEN c - 97 + 26
    ELSE IF c >= 48 /\ c <= 57 THEN c - 48 + 52
    ELSE IF c = 43 THEN 62 ELSE 63

\* b64.StdEncoding.EncodeToString
RECURSIVE Base64Encode(_)
Base64Encode(bs) ==
    IF Len(bs) = 0 THEN <<>>
    ELSE IF Len(bs) = 1 THEN
        <<B64Char(bs[1] \div 4), B64Char((bs[1] % 4) * 16), 61, 61>>
    ELSE IF Len(bs) = 2 THEN
        <<B64Char(bs[1] \div 4),
          B64Char((bs[1] % 4) * 16 + bs[2] \div 16),
          B64Char((bs[2] % 16) * 4), 61>>
    ELSE
        <<B64Char(bs[1] \div 4),
          B64Char((bs[1] % 4) * 16 + bs[2] \div 16),
          B64Char((bs[2] % 16) * 4 + bs[3] \div 64),
          B64Char(bs[3] % 64)>> \o Base64Encode(SubSeq(bs, 4, Len(bs)))

\* b64.StdEncoding.DecodeString, for input that is a valid encoding
RECURSIVE Base64Decode(_)
Base64Decode(cs) ==
    IF Len(cs) < 4 THEN <<>>
    ELSE LET a == B64Value(cs[1])
             b == B64Value(cs[2])
             c == B64Value(cs[3])
             d == B64Value(cs[4])
             b1 == a * 4 + b \div 16
             b2 == (b % 16) * 16 + c \div 4
             b3 == (c % 4) * 64 + d
         IN  IF cs[3] = 61 THEN <<b1>>
             ELSE IF cs[4] = 61 THEN <<b1, b2>>
             ELSE <<b1, b2, b3>> \o Base64Decode(SubSeq(cs, 5, Len(cs)))

\* rand.Seed: the state of the global source after seeding
RandSeed(seed) == (seed * 7919 + 1) % 65537

\* one step of the global source
RandNext(s) == (s * 75 + 74) % 65537

\* rand.Intn(n) drawn in state s (the state after the draw is RandNext(s))
RandIntn(s, n) == RandNext(s) % n

\* the state of the global source after k draws from state s
RECURSIVE RandAfter(_, _)
RandAfter(s, k) ==
    IF k = 0 THEN s
    ELSE IF k = 1 THEN RandNext(s)
    ELSE LET s1 == RandAfter(s, k \div 2)
         IN  IF s1 >= 0 THEN RandAfter(s1, k - k \div 2) ELSE s1

\* rand.Perm(n): m[i] = m[j]; m[j] = i with j = Intn(i+1), for i = lo..hi-1;
\* s is the state of the source before the draw of i = 0
RECURSIVE PermLoop(_, _, _, _)
PermLoop(lo, hi, m, s) ==
    IF lo >= hi THEN m
    ELSE IF hi = lo + 1 THEN
        LET j == RandIntn(RandAfter(s, lo), lo + 1)
        IN  [m EXCEPT ![lo + 1] = m[j + 1], ![j + 1] = lo]
    ELSE LET mid == (lo + hi) \div 2
             m1 == PermLoop(lo, mid, m, s)
         IN  IF m1[1] >= 0 THEN PermLoop(mid, hi, m1, s) ELSE m1

RandPerm(s, n) == [m |-> PermLoop(0, n, [k \in 1..n |-> 0], s), s |-> RandAfter(s, n)]

\* rand.Read(b): len bytes drawn one after the other
RECURSIVE RandRead(_, _)
RandRead(s, len) ==
    IF len = 0 THEN <<>>
    ELSE IF len = 1 THEN <<RandNext(s) % 256>>
    ELSE LET half == len \div 2
             front == RandRead(s, half)
         IN  IF Len(front) = half
             THEN front \o RandRead(RandAfter(s, half), len - half)
             ELSE front

(***************************************************************************)
(* randomPassword, randomSaltHash, solrPasswordHash                        *)
(***************************************************************************)
PasswordLen == 16
SaltSeedLen == 32

lower == <<97, 98, 99, 100, 101, 102, 103, 104, 105, 106, 107, 108, 109, 110,
           112, 113, 114, 115, 116, 117, 118, 119, 120, 121, 122>>   \* no 'o'
upper == [i \in 1..Len(lower) |-> lower[i] - 32]                     \* strings.ToUpper
digits == <<48, 49, 50, 51, 52, 53, 54, 55, 56, 57>>
punct == <<40, 41, 91, 93, 37, 35, 64, 45, 40, 41, 91, 93, 37, 35, 64, 45>>
chars == lower \o upper \o digits \o punct

\* The password drawn when the clock reads now, and the state the global
\* source is left in.  pass[0], pass[15] and perm are drawn in this order.
randomPassword(now) ==
    LET s0 == RandSeed(now)
        s1 == RandNext(s0)
        s2 == RandNext(s1)
        p == RandPerm(s2, Len(chars))
    IN  [pass |-> [i \in 1..PasswordLen |->
                      IF i = 1 THEN lower[RandIntn(s0, Len(lower)) + 1]
                      ELSE IF i = PasswordLen THEN upper[RandIntn(s1, Len(upper)) + 1]
                      ELSE chars[p.m[i] + 1]],
         rng |-> p.s]

\* salt = sha256 of 32 bytes read from the global source in state rng
randomSaltHash(rng) == Sha256(RandRead(rng, SaltSeedLen))

Space == <<32>>

\* solrPasswordHash with the password put before the salt
solrPasswordHashPasswordFirst(passBytes, rng) ==
    LET salt == randomSaltHash(rng)
        passHashBytes == Sha256(Sha256(passBytes \o salt))
    IN  Base64Encode(passHashBytes) \o Space \o Base64Encode(salt)

\* passHash = sha256(sha256(salt ++ password)); "<b64(passHash)> <b64(salt)>"
solrPasswordHash(passBytes, rng) ==
    LET salt == randomSaltHash(rng)
        passHashBytes == Sha256(Sha256(salt \o passBytes))
    IN  Base64Encode(passHashBytes) \o Space \o Base64Encode(salt)

(***************************************************************************)
(* The SolrCloud object (api/v1beta1).  Only the fields the generators     *)
(* modelled here read are kept.                                            *)
(***************************************************************************)
SolrTechnologyLabel == "solr-cloud"
InstanceLabelKey == "solr-cloud"
TechnologyLabelKey == "technology"
ServiceTypeLabelKey == "service-type"
DefaultBasicAuthUsername == "k8s-oper"
SolrZKConnectionStringAnnotation == "solr.apache.org/zkConnectionString"
SolrXmlMd5Annotation == "solr.apache.org/solrXmlMd5"
LogXmlMd5Annotation == "solr.apache.org/logXmlMd5"
LogXmlFile == "log4j2.xml"
SolrXmlFile == "solr.xml"
SecurityJsonFile == "security.json"
BasicAuthUsernameKey == "username"
BasicAuthPasswordKey == "password"
SolrClientPortName == "solr-client"
ExternalDNS == "ExternalDNS"
Ingress == "Ingress"

DefaultProbePath == <<47, 97, 100, 109, 105, 110, 47, 105, 110, 102, 111, 47, 115, 121,
                      115, 116, 101, 109>>                         \* /admin/info/system
SolrPrefix == <<47, 115, 111, 108, 114>>                          \* /solr

DefaultSolrCloud(name) ==
    [Name |-> name,
     Labels |-> EmptyMap,
     Spec |-> [
        CustomSolrKubeOptions |-> [
            StatefulSetOptions |-> Nil,
            PodOptions |-> Nil,
            ConfigMapOptions |-> Nil,
            CommonServiceOptions |-> Nil,
            HeadlessServiceOptions |-> Nil,
            NodeServiceOptions |-> Nil,
            IngressOptions |-> Nil],
        SolrAddressability |-> [External |-> Nil, PodPort |-> 8983, CommonServicePort |-> 80],
        StorageOptions |-> [PersistentStorage |-> Nil, EphemeralStorage |-> Nil],
        BackupRepositories |-> <<>>,
        SolrTLS |-> Nil,
        SolrSecurity |-> Nil]]

\* the pod options of a user who has set none of them
NoPodOptions ==
    [Labels |-> EmptyMap, Annotations |-> EmptyMap, Volumes |-> <<>>,
     ReadinessProbe |-> Nil, LivenessProbe |-> Nil, StartupProbe |-> Nil,
     TerminationGracePeriodSeconds |-> Nil, PodSecurityContext |-> Nil, Lifecycle |-> Nil,
     EnvVariables |-> <<>>]

\* the value of key k in map m, "" when the key is absent (Go's zero value)
Lookup(m, k) == IF k \in DOMAIN m THEN m[k] ELSE ""

\* m[k] = v on a Go map
MapSet(m, k, v) == [x \in DOMAIN m \cup {k} |-> IF x = k THEN v ELSE m[x]]

\* SolrCloud.SharedLabelsWith: a copy of the given labels with the identity
\* label of the instance set on it
SharedLabelsWith(sc, labels) == MapSet(labels, InstanceLabelKey, sc.Name)

\* SolrCloud.SharedLabels
SharedLabels(sc) == SharedLabelsWith(sc, EmptyMap)

\* MergeLabelsOrAnnotations(base, additional): a new map holding both; on a
\* key held by both, the additional (object-kind-specific) value
MergeLabelsOrAnnotations(base, additional) ==
    [k \in DOMAIN base \cup DOMAIN additional |->
        IF k \in DOMAIN additional THEN additional[k] ELSE base[k]]

\* naming of the generated objects
StatefulSetName(sc) == sc.Name \o "-solrcloud"
ConfigMapName(sc) == sc.Name \o "-solrcloud-configmap"
CommonServiceName(sc) == sc.Name \o "-solrcloud-common"
HeadlessServiceName(sc) == sc.Name \o "-solrcloud-headless"
CommonIngressName(sc) == sc.Name \o "-solrcloud-common"
BasicAuthSecretName(sc) == sc.Name \o "-solrcloud-basic-auth"
SecurityBootstrapSecretName(sc) == sc.Name \o "-solrcloud-security-bootstrap"

\* SolrCloud.NodePort: the port a node is addressed on
NodePort(sc) ==
    LET ext == sc.Spec.SolrAddressability.External
    IN  IF ext # Nil /\ Get(ext).Method = Ingress THEN 80
        ELSE sc.Spec.SolrAddressability.PodPort

\* SolrCloud.ExternalCommonUrl(domainName, false)
ExternalCommonUrl(sc, domainName) == "default-" \o sc.Name \o "-solrcloud." \o domainName

\* SolrCloud.ExternalNodeUrl(nodeName, domainName, false)
ExternalNodeUrl(sc, nodeName, domainName) == "default-" \o nodeName \o "." \o domainName

\* SolrCloud.ExternalDnsDomain
ExternalDnsDomain(sc, domainName) == "default." \o domainName

(***************************************************************************)
(* Map iteration.  `for k := range m` visits the keys of a Go map in an    *)
(* order the language leaves open: a generator that ranges over a map      *)
(* takes the order of that visit as its last parameter.                    *)
(***************************************************************************)
RangeOrders(S) ==
    {o \in [1..Cardinality(S) -> S] : \A x \in S : \E i \in DOMAIN o : o[i] = x}

(***************************************************************************)
(* GenerateStatefulSet: metadata, selector and host aliases                *)
(***************************************************************************)
\* lines 90, 93, 102-106: the labels of the StatefulSet
StatefulSetLabels(sc) ==
    LET labels == MapSet(SharedLabelsWith(sc, sc.Labels), TechnologyLabelKey, SolrTechnologyLabel)
        customSSOptions == sc.Spec.CustomSolrKubeOptions.StatefulSetOptions
    IN  IF customSSOptions # Nil
        THEN MergeLabelsOrAnnotations(labels, Get(customSSOptions).Labels)
        ELSE labels

\* the pod selector built from the user's labels as the object labels are
StatefulSetSelectorLabelsWithUserLabels(sc) ==
    MapSet(SharedLabelsWith(sc, sc.Labels), TechnologyLabelKey, SolrTechnologyLabel)

\* lines 91, 94: the pod selector
StatefulSetSelectorLabels(sc) ==
    MapSet(SharedLabels(sc), TechnologyLabelKey, SolrTechnologyLabel)

\* lines 96-98, 102-106
StatefulSetAnnotations(sc, solrCloudStatus) ==
    LET annotations == (SolrZKConnectionStringAnnotation :> solrCloudStatus.ZkConnectionString)
        customSSOptions == sc.Spec.CustomSolrKubeOptions.StatefulSetOptions
    IN  IF customSSOptions # Nil
        THEN MergeLabelsOrAnnotations(annotations, Get(customSSOptions).Annotations)
        ELSE annotations

\* lines 100, 108-112: podLabels starts from the labels as they are before
\* the StatefulSet options are merged
StatefulSetPodLabels(sc) ==
    LET podLabels == MapSet(SharedLabelsWith(sc, sc.Labels), TechnologyLabelKey, SolrTechnologyLabel)
        customPodOptions == sc.Spec.CustomSolrKubeOptions.PodOptions
    IN  IF customPodOptions # Nil
        THEN MergeLabelsOrAnnotations(podLabels, Get(customPodOptions).Labels)
        ELSE podLabels

\* lines 109-112, 342-348, 375-380
StatefulSetPodAnnotations(sc, reconcileConfigInfo) ==
    LET customPodOptions == sc.Spec.CustomSolrKubeOptions.PodOptions
        a0 == IF customPodOptions # Nil THEN Get(customPodOptions).Annotations ELSE EmptyMap
        a1 == IF Lookup(reconcileConfigInfo, LogXmlFile) # ""
                 /\ Lookup(reconcileConfigInfo, LogXmlMd5Annotation) # ""
              THEN MapSet(a0, LogXmlMd5Annotation, reconcileConfigInfo[LogXmlMd5Annotation])
              ELSE a0
    IN  IF Lookup(reconcileConfigInfo, SolrXmlMd5Annotation) # ""
        THEN MapSet(a1, SolrXmlMd5Annotation, reconcileConfigInfo[SolrXmlMd5Annotation])
        ELSE a1

\* HostAliases without the sort of the host names
HostAliasesUnsorted(hostNameIPs, rangeOrder) ==
    LET hostNames == rangeOrder
    IN  [index \in 1..Len(hostNames) |->
            [IP |-> hostNameIPs[hostNames[index]], Hostnames |-> <<hostNames[index]>>]]

\* lines 233-254: one alias per host name, host names sorted; rangeOrder
\* is the order in which the range over hostNameIPs visits the names
HostAliases(hostNameIPs, rangeOrder) ==
    LET hostNames == SortStrings(rangeOrder)
    IN  [index \in 1..Len(hostNames) |->
            [IP |-> hostNameIPs[hostNames[index]], Hostnames |-> <<hostNames[index]>>]]

(***************************************************************************)
(* The coordination service: connection environment, the chroot command    *)
(* and the setup-zk init container.  A shell command is kept as the list   *)
(* of the parts the code appends to it.                                    *)
(***************************************************************************)
\* SolrCloudStatus.DissectZkInfo: the connection string, the server list
\* and the chroot
DissectZkInfo(solrCloudStatus) ==
    [zkConnectionStr |-> solrCloudStatus.ZkConnectionString,
     zkServer |-> solrCloudStatus.ZkServer,
     zkChroot |-> solrCloudStatus.ChRoot]

\* lines 1045-1071, for a SolrCloud without ACLs on the coordination service
createZkConnectionEnvVars(sc, solrCloudStatus) ==
    LET info == DissectZkInfo(solrCloudStatus)
    IN  [envVars |-> <<[Name |-> "ZK_HOST", Value |-> info.zkConnectionStr],
                       [Name |-> "ZK_CHROOT", Value |-> info.zkChroot],
                       [Name |-> "ZK_SERVER", Value |-> info.zkServer]>>,
         solrOpt |-> "",
         hasChroot |-> Len(info.zkChroot) > 1]

\* line 323 and line 1023
ChrootCommand == "solr zk ls ${ZK_CHROOT} -z ${ZK_SERVER} || solr zk mkroot ${ZK_CHROOT} -z ${ZK_SERVER}"
\* line 1025
GetSecurityJsonCommand ==
    "ZK_SECURITY_JSON=$(/opt/solr/server/scripts/cloud-scripts/zkcli.sh -zkhost ${ZK_HOST} -cmd get /security.json); "
\* line 1026
PutSecurityJsonCommand ==
    "if [ ${#ZK_SECURITY_JSON} -lt 3 ]; then echo $SECURITY_JSON > /tmp/security.json; /opt/solr/server/scripts/cloud-scripts/zkcli.sh -zkhost ${ZK_HOST} -cmd putfile /security.json /tmp/security.json; echo \"put security.json in ZK\"; fi"
\* setUrlSchemeClusterPropCmd(): the command that sets the urlScheme cluster
\* property, kept by its name
SetUrlSchemeClusterPropCmd == "setUrlSchemeClusterPropCmd()"

\* `a || b`: b runs exactly when a fails
OrElseRunsAlways(firstSucceeded) == TRUE
OrElseRuns(firstSucceeded) == ~firstSucceeded

\* `[ ${#ZK_SECURITY_JSON} -lt 3 ]`
ShorterThan3(text) == Len(text) < 3

\* lines 989-1043, for a SolrCloud without SolrOpts
generateZKInteractionInitContainer(sc, solrCloudStatus, reconcileConfigInfo) ==
    LET zkEnv == createZkConnectionEnvVars(sc, solrCloudStatus)
        tlsCmd == IF sc.Spec.SolrTLS # Nil THEN <<SetUrlSchemeClusterPropCmd>> ELSE <<>>
        hasSecurityJson == Lookup(reconcileConfigInfo, SecurityJsonFile) # ""
        envVars == zkEnv.envVars
                   \o (IF hasSecurityJson
                       THEN <<[Name |-> "SECURITY_JSON",
                               SecretKeyRef |-> [Name |-> SecurityBootstrapSecretName(sc),
                                                 Key |-> SecurityJsonFile]]>>
                       ELSE <<>>)
        cmd == IF hasSecurityJson
               THEN (IF tlsCmd = <<>> THEN <<ChrootCommand, "; ">> ELSE tlsCmd)
                    \o <<GetSecurityJsonCommand, PutSecurityJsonCommand>>
               ELSE tlsCmd
    IN  [ok |-> cmd # <<>>,
         container |-> IF cmd # <<>>
                       THEN [Name |-> "setup-zk", Command |-> <<"sh", "-c", cmd>>, Env |-> envVars]
                       ELSE [Name |-> "", Command |-> <<>>, Env |-> <<>>]]

(***************************************************************************)
(* GenerateStatefulSet: volumes, volume-claim templates and probes         *)
(***************************************************************************)
\* a corev1.VolumeSource: at most the fields the generators set
NoSource == [ConfigMap |-> Nil, Secret |-> Nil, HostPath |-> Nil, EmptyDir |-> Nil]

SolrPVCTechnologyLabel == "solr.apache.org/technology"
SolrCloudPVCTechnology == "solr-cloud"
SolrPVCStorageLabel == "solr.apache.org/storage"
SolrCloudPVCDataStorage == "data"
SolrPVCInstanceLabel == "solr.apache.org/instance"
ReadWriteOnce == "ReadWriteOnce"
PersistentVolumeFilesystem == "Filesystem"
solrDataVolumeName == "data"
SolrNodeContainer == "solrcloud-node"

UsesPersistentStorage(sc) == sc.Spec.StorageOptions.PersistentStorage # Nil

\* lines 167-172
PVCLabels(sc, pvc) ==
    LET internalLabels == (SolrPVCTechnologyLabel :> SolrCloudPVCTechnology)
                          @@ (SolrPVCStorageLabel :> SolrCloudPVCDataStorage)
                          @@ (SolrPVCInstanceLabel :> sc.Name)
    IN  MergeLabelsOrAnnotations(internalLabels, pvc.ObjectMeta.Labels)

\* the volume-claim templates without the defaults of the claim's spec
PersistentVolumeClaimsNoDefaults(sc) ==
    IF UsesPersistentStorage(sc)
    THEN LET pvc == Get(sc.Spec.StorageOptions.PersistentStorage).PersistentVolumeClaimTemplate
         IN  <<[ObjectMeta |-> [Name |-> IF pvc.ObjectMeta.Name = "" THEN solrDataVolumeName
                                         ELSE pvc.ObjectMeta.Name,
                                Labels |-> PVCLabels(sc, pvc),
                                Annotations |-> pvc.ObjectMeta.Annotations],
                 Spec |-> pvc.Spec]>>
    ELSE <<>>

\* lines 146-184: pvcs
PersistentVolumeClaims(sc) ==
    IF UsesPersistentStorage(sc)
    THEN LET pvc == Get(sc.Spec.StorageOptions.PersistentStorage).PersistentVolumeClaimTemplate
         IN  <<[ObjectMeta |-> [Name |-> IF pvc.ObjectMeta.Name = "" THEN solrDataVolumeName
                                         ELSE pvc.ObjectMeta.Name,
                                Labels |-> PVCLabels(sc, pvc),
                                Annotations |-> pvc.ObjectMeta.Annotations],
                 Spec |-> [pvc.Spec EXCEPT
                            !.AccessModes = IF Len(@) = 0 THEN <<ReadWriteOnce>> ELSE @,
                            !.VolumeMode = IF @ = Nil THEN Some(PersistentVolumeFilesystem) ELSE @]]>>
    ELSE <<>>

\* lines 185-203: the data volume of the pod, when there is no claim
EphemeralVolumes(sc) ==
    IF UsesPersistentStorage(sc) THEN <<>>
    ELSE LET ephemeralStorage == sc.Spec.StorageOptions.EphemeralStorage
             source ==
                IF ephemeralStorage # Nil
                THEN IF Get(ephemeralStorage).HostPath # Nil
                     THEN [NoSource EXCEPT !.HostPath = Get(ephemeralStorage).HostPath]
                     ELSE IF Get(ephemeralStorage).EmptyDir # Nil
                     THEN [NoSource EXCEPT !.EmptyDir = Get(ephemeralStorage).EmptyDir]
                     ELSE [NoSource EXCEPT !.EmptyDir = Some([SizeLimit |-> ""])]
                ELSE [NoSource EXCEPT !.EmptyDir = Some([SizeLimit |-> ""])]
         IN  <<[Name |-> solrDataVolumeName, VolumeSource |-> source]>>

\* lines 217-232: the volumes the user adds to the pod
CustomVolumes(sc) ==
    LET customPodOptions == sc.Spec.CustomSolrKubeOptions.PodOptions
    IN  IF customPodOptions = Nil THEN <<>>
        ELSE [i \in DOMAIN Get(customPodOptions).Volumes |->
                [Name |-> Get(customPodOptions).Volumes[i].Name,
                 VolumeSource |-> Get(customPodOptions).Volumes[i].Source]]

\* lines 75-87: the probe of a Solr that needs neither certificate nor login
DefaultHTTPGet(sc, tls) ==
    [Scheme |-> IF tls # Nil THEN "HTTPS" ELSE "HTTP",
     Path |-> SolrPrefix \o DefaultProbePath,
     Port |-> sc.Spec.SolrAddressability.PodPort]

UrlScheme(sc) == IF sc.Spec.SolrTLS # Nil THEN "https" ELSE "http"

\* the options of the probe's JVM under TLS: tool options, system properties
secureProbeTLSJavaToolOpts(sc) ==
    IF sc.Spec.SolrTLS # Nil
    THEN <<"-Djavax.net.ssl.trustStore=$SOLR_SSL_TRUST_STORE", "-Dsolr.ssl.checkPeerName=false">>
    ELSE <<"", "">>

ProbesRequireAuth(sc) ==
    sc.Spec.SolrSecurity # Nil /\ Get(sc.Spec.SolrSecurity).ProbesRequireAuth

\* lines 1321-1363; probeCommand is kept as the arguments of its format
configureSecureProbeCommand(sc, defaultProbeGetAction) ==
    LET secretName == BasicAuthSecretName(sc)
        volName == secretName       \* no name of the model has a "." to replace
        mountPath == "/etc/secrets/" \o volName
        usernameFile == mountPath \o "/" \o BasicAuthUsernameKey
        passwordFile == mountPath \o "/" \o BasicAuthPasswordKey
        basicAuthOption == IF ProbesRequireAuth(sc)
                           THEN "-Dbasicauth=$(cat " \o usernameFile \o "):$(cat " \o passwordFile \o ")"
                           ELSE ""
        enableBasicAuth ==
            IF ProbesRequireAuth(sc)
            THEN "-Dsolr.httpclient.builder.factory=org.apache.solr.client.solrj.impl.PreemptiveBasicAuthClientBuilderFactory"
            ELSE ""
        tlsOpts == secureProbeTLSJavaToolOpts(sc)
    IN  [probeCommand |-> [javaToolOptions |-> <<basicAuthOption, tlsOpts[1]>>,
                           tlsJavaSysProps |-> tlsOpts[2],
                           enableBasicAuth |-> enableBasicAuth,
                           scheme |-> UrlScheme(sc),
                           host |-> "localhost",
                           port |-> defaultProbeGetAction.Port,
                           path |-> defaultProbeGetAction.Path],
         vol |-> IF ProbesRequireAuth(sc)
                 THEN Some([Name |-> volName,
                            VolumeSource |-> [NoSource EXCEPT !.Secret = Some([SecretName |-> secretName])]])
                 ELSE Nil,
         volMount |-> IF ProbesRequireAuth(sc)
                      THEN Some([Name |-> volName, MountPath |-> mountPath])
                      ELSE Nil]

\* the probes switched to the command only when a client certificate is required
NeedsSecureProbeClientAuthOnly(sc, tls) ==
    tls # Nil /\ Get(tls).ServerConfig # Nil
              /\ Get(Get(tls).ServerConfig).Options.ClientAuth # "None"

\* line 360: the probes must run a command
NeedsSecureProbe(sc, tls) ==
    \/ tls # Nil /\ Get(tls).ServerConfig # Nil
                 /\ Get(Get(tls).ServerConfig).Options.ClientAuth # "None"
    \/ ProbesRequireAuth(sc)

\* lines 81-87, 360-371
DefaultHandler(sc, tls) ==
    IF NeedsSecureProbe(sc, tls)
    THEN [HTTPGet |-> Nil,
          Exec |-> Some([Command |-> <<"sh", "-c",
                            configureSecureProbeCommand(sc, DefaultHTTPGet(sc, tls)).probeCommand>>])]
    ELSE [HTTPGet |-> Some(DefaultHTTPGet(sc, tls)), Exec |-> Nil]

DefaultProbeTimeout(sc, tls) == IF NeedsSecureProbe(sc, tls) THEN 5 ELSE 1

\* lines 361-363
SecureProbeVolumes(sc, tls) ==
    LET vol == configureSecureProbeCommand(sc, DefaultHTTPGet(sc, tls)).vol
    IN  IF NeedsSecureProbe(sc, tls) /\ vol # Nil THEN <<Get(vol)>> ELSE <<>>

\* a probe of the user laid over a probe of the operator: what the user
\* sets wins, field by field
customizeProbe(initialProbe, customProbe) ==
    [initialProbe EXCEPT
        !.TimeoutSeconds = IF customProbe.TimeoutSeconds # 0 THEN customProbe.TimeoutSeconds ELSE @,
        !.HTTPGet = IF customProbe.HTTPGet # Nil \/ customProbe.Exec # Nil
                    THEN customProbe.HTTPGet ELSE @,
        !.Exec = IF customProbe.HTTPGet # Nil \/ customProbe.Exec # Nil
                 THEN customProbe.Exec ELSE @]

\* lines 416-431: the probes of the Solr container before the user's
SolrContainerProbes(sc, tls) ==
    LET defaultHandler == DefaultHandler(sc, tls)
    IN  [LivenessProbe |-> [InitialDelaySeconds |-> 20,
                            TimeoutSeconds |-> DefaultProbeTimeout(sc, tls),
                            SuccessThreshold |-> 1,
                            FailureThreshold |-> 3,
                            PeriodSeconds |-> 10,
                            HTTPGet |-> defaultHandler.HTTPGet,
                            Exec |-> defaultHandler.Exec],
         ReadinessProbe |-> [InitialDelaySeconds |-> 15,
                             TimeoutSeconds |-> DefaultProbeTimeout(sc, tls),
                             SuccessThreshold |-> 1,
                             FailureThreshold |-> 3,
                             PeriodSeconds |-> 5,
                             HTTPGet |-> defaultHandler.HTTPGet,
                             Exec |-> defaultHandler.Exec],
         StartupProbe |-> Nil]

\* lines 536-554: the user's probes laid over the probes of the container
CustomizeProbes(solrContainer, customPodOptions) ==
    LET withStartup ==
            IF customPodOptions.StartupProbe # Nil
            THEN [solrContainer EXCEPT !.StartupProbe =
                    Some(customizeProbe([solrContainer.LivenessProbe EXCEPT
                                            !.TimeoutSeconds = 30, !.FailureThreshold = 15],
                                        Get(customPodOptions.StartupProbe)))]
            ELSE solrContainer
        withLiveness ==
            IF customPodOptions.LivenessProbe # Nil
            THEN [withStartup EXCEPT !.LivenessProbe =
                    customizeProbe(@, Get(customPodOptions.LivenessProbe))]
            ELSE withStartup
    IN  IF customPodOptions.ReadinessProbe # Nil
        THEN [withLiveness EXCEPT !.ReadinessProbe =
                customizeProbe(@, Get(customPodOptions.ReadinessProbe))]
        ELSE withLiveness

TLSVolumes(tls) ==
    IF tls # Nil /\ Get(tls).ServerConfig # Nil
          /\ Get(Get(tls).ServerConfig).Options.PKCS12Secret # Nil
    THEN <<[Name |-> "keystore",
            VolumeSource |-> [NoSource EXCEPT !.Secret =
                Some([SecretName |-> Get(Get(Get(tls).ServerConfig).Options.PKCS12Secret).Name])]]>>
    ELSE <<>>

\* The SolrCloud object as GenerateStatefulSet leaves it.  Line 222 writes
\* the volume's name through the DefaultContainerMount pointer of the
\* object; podAnnotations of line 109 is the map of the object, and lines
\* 346-351 and 375-380 write the checksums into it when it is not nil.
GenerateStatefulSetLeaves(sc, reconcileConfigInfo) ==
    LET customPodOptions == sc.Spec.CustomSolrKubeOptions.PodOptions
        volumes == Get(customPodOptions).Volumes
        annotations == Get(customPodOptions).Annotations
    IN  IF customPodOptions = Nil THEN sc
        ELSE [sc EXCEPT !.Spec.CustomSolrKubeOptions.PodOptions = Some(
                [Get(customPodOptions) EXCEPT
                    !.Volumes = [i \in DOMAIN volumes |->
                        IF volumes[i].DefaultContainerMount # Nil
                        THEN [volumes[i] EXCEPT !.DefaultContainerMount =
                                Some([Get(@) EXCEPT !.Name = volumes[i].Name])]
                        ELSE volumes[i]],
                    !.Annotations = IF annotations = EmptyMap THEN annotations
                                    ELSE StatefulSetPodAnnotations(sc, reconcileConfigInfo)])]

\* two's complement integers of IntBits bits
MinInt == -(2 ^ (IntBits - 1))
MaxInt == 2 ^ (IntBits - 1) - 1
Wrap(n) == ((n - MinInt) % (2 ^ IntBits)) + MinInt

\* strconv.Itoa, strconv.FormatInt(n, 10): the decimal digits, after a minus
\* sign for a negative number
RECURSIVE Digits(_)
Digits(n) == IF n < 10 THEN <<48 + n>> ELSE Append(Digits(n \div 10), 48 + (n % 10))
FormatInt(n) == IF n < 0 THEN <<45>> \o Digits(-n) ELSE Digits(n)

DefaultSolrGroup == 8983
DefaultTerminationGracePeriod == 60

\* lines 72, 114-116
TerminationGracePeriod(sc) ==
    LET customPodOptions == sc.Spec.CustomSolrKubeOptions.PodOptions
    IN  IF customPodOptions # Nil /\ Get(customPodOptions).TerminationGracePeriodSeconds # Nil
        THEN Get(Get(customPodOptions).TerminationGracePeriodSeconds)
        ELSE DefaultTerminationGracePeriod

\* lines 259-263
SolrStopWait(terminationGracePeriod) ==
    LET solrStopWait == Wrap(terminationGracePeriod - 5)
    IN  IF solrStopWait < 0 THEN 0 ELSE solrStopWait

\* lines 266-336: the environment of the Solr container, for the fields of
\* the SolrCloud that the model carries
SolrContainerEnv(sc, solrCloudStatus) ==
    LET customPodOptions == sc.Spec.CustomSolrKubeOptions.PodOptions
        solrPodPort == sc.Spec.SolrAddressability.PodPort
    IN  <<[Name |-> "SOLR_HOME", Value |-> "/var/solr/data"],
          [Name |-> "SOLR_PORT", Value |-> FormatInt(solrPodPort)],
          [Name |-> "SOLR_NODE_PORT", Value |-> FormatInt(NodePort(sc))],
          [Name |-> "POD_HOSTNAME", FieldRef |-> [FieldPath |-> "metadata.name"]],
          [Name |-> "SOLR_STOP_WAIT", Value |-> FormatInt(SolrStopWait(TerminationGracePeriod(sc)))]>>
        \o createZkConnectionEnvVars(sc, solrCloudStatus).envVars
        \o (IF customPodOptions # Nil THEN Get(customPodOptions).EnvVariables ELSE <<>>)

\* lines 318-331, 428-431
SolrContainerLifecycle(sc, solrCloudStatus) ==
    [PostStart |-> IF createZkConnectionEnvVars(sc, solrCloudStatus).hasChroot
                   THEN Some([Exec |-> [Command |-> <<"sh", "-c", <<ChrootCommand>>>>]])
                   ELSE Nil,
     PreStop |-> Some([Exec |-> [Command |->
                    <<"solr", "stop", "-p", FormatInt(sc.Spec.SolrAddressability.PodPort)>>]])]

\* the variants of a backup repository
GCS == "GCS"
S3 == "S3"
Managed == "Managed"

\* a name of lower-case letters, as text
Letters == <<"a", "b", "c", "d", "e", "f", "g", "h", "i", "j", "k", "l", "m",
             "n", "o", "p", "q", "r", "s", "t", "u", "v", "w", "x", "y", "z">>
RECURSIVE Text(_)
Text(bytes) == IF bytes = <<>> THEN "" ELSE Letters[Head(bytes) - 96] \o Text(Tail(bytes))

RECURSIVE Concat(_)
Concat(seqs) == IF seqs = <<>> THEN <<>> ELSE Head(seqs) \o Concat(Tail(seqs))

\* RepoVolumeName: the volume of a repository is named after the repository
RepoVolumeName(repo) == "backup-repository-" \o Text(repo.Name)

\* IsRepoManaged: the repository is a volume the operator prepares
IsRepoManaged(repo) == repo.Kind = Managed

\* RepoVolumeSourceAndMount: the volume source and the mount of a
\* repository; none for a provider that keeps its storage outside.  The
\* source of a managed repository is the volume the user gave, that of a GCS
\* repository the secret of its credentials.
RepoVolumeSourceAndMount(repo, solrCloudName) ==
    IF repo.Kind = Managed
    THEN [source |-> Some(NoSource),
          mount |-> Some([Name |-> RepoVolumeName(repo),
                          MountPath |-> "/var/solr/data/backup-restore-managed-" \o Text(repo.Name)])]
    ELSE IF repo.Kind = GCS
    THEN [source |-> Some([NoSource EXCEPT !.Secret = Some([SecretName |-> "gcs-credential"])]),
          mount |-> Some([Name |-> RepoVolumeName(repo),
                          MountPath |-> "/var/solr/data/backup-restore/gcscredential"])]
    ELSE [source |-> Nil, mount |-> Nil]

\* lines 204-215: the volumes of the repositories
RepoVolumes(sc) ==
    Concat([i \in DOMAIN sc.Spec.BackupRepositories |->
        LET repo == sc.Spec.BackupRepositories[i]
            bound == RepoVolumeSourceAndMount(repo, sc.Name)
        IN  IF bound.source # Nil
            THEN <<[Name |-> RepoVolumeName(repo), VolumeSource |-> Get(bound.source)]>>
            ELSE <<>>])

\* lines 204-215: their mounts in the Solr container
RepoVolumeMounts(sc) ==
    Concat([i \in DOMAIN sc.Spec.BackupRepositories |->
        LET repo == sc.Spec.BackupRepositories[i]
            bound == RepoVolumeSourceAndMount(repo, sc.Name)
        IN  IF bound.source # Nil
            THEN <<[Get(bound.mount) EXCEPT !.Name = RepoVolumeName(repo)]>>
            ELSE <<>>])

\* lines 217-225: the mounts of the volumes the user adds
CustomVolumeMounts(sc) ==
    LET customPodOptions == sc.Spec.CustomSolrKubeOptions.PodOptions
    IN  IF customPodOptions = Nil THEN <<>>
        ELSE Concat([i \in DOMAIN Get(customPodOptions).Volumes |->
                LET volume == Get(customPodOptions).Volumes[i]
                IN  IF volume.DefaultContainerMount # Nil
                    THEN <<[Get(volume.DefaultContainerMount) EXCEPT !.Name = volume.Name]>>
                    ELSE <<>>])

\* lines 1074-1106, for fileKey log4j2.xml: the mount of the user's log
\* configuration and, unless it is in the ConfigMap of solr.xml, its volume
setupVolumeMountForUserProvidedConfigMapEntry(reconcileConfigInfo) ==
    LET appendedToExisting ==
            Lookup(reconcileConfigInfo, LogXmlFile) = Lookup(reconcileConfigInfo, SolrXmlFile)
        volName == IF appendedToExisting THEN "solr-xml" ELSE "log4j2-xml"
        mountPath == "/var/solr/" \o Lookup(reconcileConfigInfo, LogXmlFile)
    IN  [volMount |-> [Name |-> volName, MountPath |-> mountPath],
         newVolume |-> IF appendedToExisting THEN Nil
                       ELSE Some([Name |-> volName,
                                  VolumeSource |-> [NoSource EXCEPT !.ConfigMap =
                                      Some([Name |-> Lookup(reconcileConfigInfo, LogXmlFile)])]])]

\* lines 341-358
LogXmlVolumes(reconcileConfigInfo) ==
    LET log == setupVolumeMountForUserProvidedConfigMapEntry(reconcileConfigInfo)
    IN  IF Lookup(reconcileConfigInfo, LogXmlFile) # "" /\ log.newVolume # Nil
        THEN <<Get(log.newVolume)>> ELSE <<>>

LogXmlVolumeMounts(reconcileConfigInfo) ==
    IF Lookup(reconcileConfigInfo, LogXmlFile) # ""
    THEN <<setupVolumeMountForUserProvidedConfigMapEntry(reconcileConfigInfo).volMount>>
    ELSE <<>>

\* lines 365-367
SecureProbeVolumeMounts(sc, tls) ==
    LET volMount == configureSecureProbeCommand(sc, DefaultHTTPGet(sc, tls)).volMount
    IN  IF NeedsSecureProbe(sc, tls) /\ volMount # Nil THEN <<Get(volMount)>> ELSE <<>>

\* lines 144-145, 204-225, 353, 365-367: volumeMounts
SolrContainerVolumeMounts(sc, reconcileConfigInfo, tls) ==
    <<[Name |-> solrDataVolumeName, MountPath |-> "/var/solr/data"]>>
    \o RepoVolumeMounts(sc)
    \o CustomVolumeMounts(sc)
    \o LogXmlVolumeMounts(reconcileConfigInfo)
    \o SecureProbeVolumeMounts(sc, tls)

\* lines 569-612, without the init containers of the user
generateSolrSetupInitContainers(sc, solrCloudStatus, dataVolumeName, reconcileConfigInfo) ==
    LET managedMounts ==
            Concat([i \in DOMAIN sc.Spec.BackupRepositories |->
                LET repo == sc.Spec.BackupRepositories[i]
                IN  IF IsRepoManaged(repo)
                    THEN <<Get(RepoVolumeSourceAndMount(repo, sc.Name).mount)>>
                    ELSE <<>>])
        volumePrepInitContainer ==
            [Name |-> "cp-solr-xml",
             VolumeMounts |-> <<[Name |-> "solr-xml", MountPath |-> "/tmp"],
                                [Name |-> dataVolumeName, MountPath |-> "/tmp-config"]>>
                              \o managedMounts]
        zkSetup == generateZKInteractionInitContainer(sc, solrCloudStatus, reconcileConfigInfo)
    IN  <<volumePrepInitContainer>>
        \o (IF zkSetup.ok THEN <<[Name |-> zkSetup.container.Name, VolumeMounts |-> <<>>]>>
            ELSE <<>>)

\* lines 71-491: the workload before the user's pod options and TLS
AssembleStatefulSet(sc, solrCloudStatus, hostNameIPs, reconcileConfigInfo, tls, rangeOrder) ==
    LET solrXmlVolume ==
            [Name |-> "solr-xml",
             VolumeSource |-> [NoSource EXCEPT !.ConfigMap =
                                Some([Name |-> Lookup(reconcileConfigInfo, SolrXmlFile)])]]
        probes == SolrContainerProbes(sc, tls)
    IN  [Name |-> StatefulSetName(sc),
         Labels |-> StatefulSetLabels(sc),
         Annotations |-> StatefulSetAnnotations(sc, solrCloudStatus),
         Spec |-> [
            Selector |-> [MatchLabels |-> StatefulSetSelectorLabels(sc)],
            ServiceName |-> HeadlessServiceName(sc),
            Template |-> [
                Labels |-> StatefulSetPodLabels(sc),
                Annotations |-> StatefulSetPodAnnotations(sc, reconcileConfigInfo),
                Spec |-> [TerminationGracePeriodSeconds |-> TerminationGracePeriod(sc),
                          SecurityContext |-> Some([FSGroup |-> Some(DefaultSolrGroup)]),
                          HostAliases |-> HostAliases(hostNameIPs, rangeOrder),
                          Volumes |-> <<solrXmlVolume>> \o EphemeralVolumes(sc)
                                      \o RepoVolumes(sc) \o CustomVolumes(sc)
                                      \o LogXmlVolumes(reconcileConfigInfo)
                                      \o SecureProbeVolumes(sc, tls),
                          InitContainers |->
                              generateSolrSetupInitContainers(sc, solrCloudStatus,
                                  solrDataVolumeName, reconcileConfigInfo),
                          Containers |-> <<[Name |-> SolrNodeContainer,
                                            VolumeMounts |->
                                                SolrContainerVolumeMounts(sc, reconcileConfigInfo, tls),
                                            Env |-> SolrContainerEnv(sc, solrCloudStatus),
                                            Lifecycle |-> Some(SolrContainerLifecycle(sc, solrCloudStatus)),
                                            LivenessProbe |-> probes.LivenessProbe,
                                            ReadinessProbe |-> probes.ReadinessProbe,
                                            StartupProbe |-> probes.StartupProbe]>>]],
            VolumeClaimTemplates |-> PersistentVolumeClaims(sc)]]

\* lines 493-559: the pod options of the user
ApplyCustomPodOptions(sc, stateful) ==
    LET customPodOptions == sc.Spec.CustomSolrKubeOptions.PodOptions
    IN  IF customPodOptions = Nil THEN stateful
        ELSE [stateful EXCEPT
                !.Spec.Template.Spec.SecurityContext =
                    IF Get(customPodOptions).PodSecurityContext # Nil
                    THEN Get(customPodOptions).PodSecurityContext ELSE @,
                !.Spec.Template.Spec.Containers[1] =
                    CustomizeProbes(
                        [@ EXCEPT !.Lifecycle = IF Get(customPodOptions).Lifecycle # Nil
                                                THEN Get(customPodOptions).Lifecycle ELSE @],
                        Get(customPodOptions))]

\* tls.enableTLSOnSolrCloudStatefulSet(stateful)
enableTLSOnSolrCloudStatefulSet(tls, stateful) ==
    [stateful EXCEPT
        !.Spec.Template.Spec.Volumes = @ \o TLSVolumes(tls),
        !.Spec.Template.Spec.Containers[1].VolumeMounts =
            @ \o [i \in DOMAIN TLSVolumes(tls) |->
                    [Name |-> TLSVolumes(tls)[i].Name, MountPath |-> "/var/solr/tls"]]]

\* lines 71-567
GenerateStatefulSet(sc, solrCloudStatus, hostNameIPs, reconcileConfigInfo, tls, rangeOrder) ==
    LET assembled == AssembleStatefulSet(sc, solrCloudStatus, hostNameIPs, reconcileConfigInfo,
                                         tls, rangeOrder)
        customized == ApplyCustomPodOptions(sc, assembled)
    IN  IF tls # Nil THEN enableTLSOnSolrCloudStatefulSet(tls, customized) ELSE customized

(***************************************************************************)
(* GenerateBackupRepositoriesForSolrXml, GenerateConfigMap                 *)
(***************************************************************************)

LibDist == <<47, 111, 112, 116, 47, 115, 111, 108, 114, 47, 100, 105, 115, 116>>
LibGcs == <<47, 111, 112, 116, 47, 115, 111, 108, 114, 47, 99, 111, 110, 116, 114, 105,
            98, 47, 103, 99, 115, 45, 114, 101, 112, 111, 115, 105, 116, 111, 114, 121,
            47, 108, 105, 98>>
LibS3 == <<47, 111, 112, 116, 47, 115, 111, 108, 114, 47, 99, 111, 110, 116, 114, 105,
           98, 47, 115, 51, 45, 114, 101, 112, 111, 115, 105, 116, 111, 114, 121, 47,
           108, 105, 98>>

\* AdditionalRepoLibs: the shared libraries a repository needs
\* ("/opt/solr/dist" and the contrib lib of the provider; none for a volume)
AdditionalRepoLibs(repo) ==
    IF repo.Kind = GCS THEN <<LibDist, LibGcs>>
    ELSE IF repo.Kind = S3 THEN <<LibDist, LibS3>>
    ELSE <<>>

\* RepoXML: the <repository> element of one repository
RepoXML(repo) ==
    <<60, 114, 101, 112, 111, 32, 110, 97, 109, 101, 61, 34>>   \* <repo name="
    \o repo.Name
    \o <<34, 32>>                                                \* "_
    \o (IF repo.Kind = GCS THEN <<103, 99, 115>>                 \* gcs
        ELSE IF repo.Kind = S3 THEN <<115, 51>>                  \* s3
        ELSE <<108, 111, 99, 97, 108>>)                          \* local
    \o <<47, 62>>                                                \* />

\* the keys of the libs map built by lines 619-627
RepoLibs(backupRepos) ==
    UNION {Range(AdditionalRepoLibs(backupRepos[i])) : i \in DOMAIN backupRepos}

SharedLibOpen == <<60, 115, 116, 114, 32, 110, 97, 109, 101, 61, 34, 115, 104, 97, 114,
                   101, 100, 76, 105, 98, 34, 62>>             \* <str name="sharedLib">
SharedLibClose == <<60, 47, 115, 116, 114, 62>>                \* </str>
BackupOpen == <<32, 10, 9, 9, 60, 98, 97, 99, 107, 117, 112, 62, 10, 9, 9>>
BackupClose == <<10, 9, 9, 60, 47, 98, 97, 99, 107, 117, 112, 62>>
Comma == <<44>>
Newline == <<10>>

\* GenerateBackupRepositoriesForSolrXml without the sort of libList
GenerateBackupRepositoriesForSolrXmlUnsortedLibs(backupRepos, rangeOrder) ==
    IF Len(backupRepos) = 0 THEN <<>>
    ELSE LET repoXMLs == SortStrings([i \in DOMAIN backupRepos |-> RepoXML(backupRepos[i])])
             libXml == IF RepoLibs(backupRepos) # {}
                       THEN SharedLibOpen \o Join(rangeOrder, Comma) \o SharedLibClose
                       ELSE <<>>
         IN  libXml \o BackupOpen \o Join(repoXMLs, Newline) \o BackupClose

\* rangeOrder is the order in which the range over the libs map visits its keys
GenerateBackupRepositoriesForSolrXml(backupRepos, rangeOrder) ==
    IF Len(backupRepos) = 0 THEN <<>>
    ELSE LET repoXMLs == SortStrings([i \in DOMAIN backupRepos |-> RepoXML(backupRepos[i])])
             libXml == IF RepoLibs(backupRepos) # {}
                       THEN SharedLibOpen \o Join(SortStrings(rangeOrder), Comma) \o SharedLibClose
                       ELSE <<>>
         IN  libXml \o BackupOpen \o Join(repoXMLs, Newline) \o BackupClose

\* fmt.Sprintf(DefaultSolrXML, backupSection): the template and its argument
GenerateSolrXMLString(backupSection) ==
    [Template |-> "DefaultSolrXML", BackupSection |-> backupSection]

\* GenerateConfigMap with the arguments of the merges exchanged
GenerateConfigMapGlobalWins(sc, rangeOrder) ==
    LET labels == SharedLabelsWith(sc, sc.Labels)
        customOptions == sc.Spec.CustomSolrKubeOptions.ConfigMapOptions
        backupSection == GenerateBackupRepositoriesForSolrXml(sc.Spec.BackupRepositories, rangeOrder)
    IN  [Name |-> ConfigMapName(sc),
         Labels |-> IF customOptions # Nil
                    THEN MergeLabelsOrAnnotations(Get(customOptions).Labels, labels)
                    ELSE labels,
         Annotations |-> IF customOptions # Nil
                         THEN MergeLabelsOrAnnotations(Get(customOptions).Annotations, EmptyMap)
                         ELSE EmptyMap,
         Data |-> (SolrXmlFile :> GenerateSolrXMLString(backupSection))]

GenerateConfigMap(sc, rangeOrder) ==
    LET labels == SharedLabelsWith(sc, sc.Labels)
        customOptions == sc.Spec.CustomSolrKubeOptions.ConfigMapOptions
        backupSection == GenerateBackupRepositoriesForSolrXml(sc.Spec.BackupRepositories, rangeOrder)
    IN  [Name |-> ConfigMapName(sc),
         Labels |-> IF customOptions # Nil
                    THEN MergeLabelsOrAnnotations(labels, Get(customOptions).Labels)
                    ELSE labels,
         Annotations |-> IF customOptions # Nil
                         THEN MergeLabelsOrAnnotations(EmptyMap, Get(customOptions).Annotations)
                         ELSE EmptyMap,
         Data |-> (SolrXmlFile :> GenerateSolrXMLString(backupSection))]

(***************************************************************************)
(* GenerateCommonService, GenerateHeadlessService, GenerateNodeService     *)
(***************************************************************************)
ExternalDnsHostnameAnnotation == "external-dns.alpha.kubernetes.io/hostname"

\* strings.Join on strings that are only compared
RECURSIVE JoinNames(_, _)
JoinNames(l, sep) ==
    IF Len(l) = 0 THEN ""
    ELSE IF Len(l) = 1 THEN l[1]
    ELSE l[1] \o sep \o JoinNames(Tail(l), sep)

\* lines 717-721 and 763-767: the host names of the externalDNS annotation
ExternalDnsUrls(sc, extOpts) ==
    <<ExternalDnsDomain(sc, extOpts.DomainName)>>
    \o [i \in DOMAIN extOpts.AdditionalDomainNames |->
            ExternalDnsDomain(sc, extOpts.AdditionalDomainNames[i])]

ServiceSelectorLabels(sc) ==
    MapSet(SharedLabels(sc), TechnologyLabelKey, SolrTechnologyLabel)

GenerateCommonService(sc) ==
    LET labels == MapSet(SharedLabelsWith(sc, sc.Labels), ServiceTypeLabelKey, "common")
        extOpts == sc.Spec.SolrAddressability.External
        annotations ==
            IF extOpts # Nil /\ Get(extOpts).Method = ExternalDNS /\ ~Get(extOpts).HideCommon
            THEN (ExternalDnsHostnameAnnotation :> JoinNames(ExternalDnsUrls(sc, Get(extOpts)), ","))
            ELSE EmptyMap
        customOptions == sc.Spec.CustomSolrKubeOptions.CommonServiceOptions
    IN  [Name |-> CommonServiceName(sc),
         Labels |-> IF customOptions # Nil
                    THEN MergeLabelsOrAnnotations(labels, Get(customOptions).Labels)
                    ELSE labels,
         Annotations |-> IF customOptions # Nil
                         THEN MergeLabelsOrAnnotations(annotations, Get(customOptions).Annotations)
                         ELSE annotations,
         Spec |-> [Ports |-> <<[Name |-> SolrClientPortName,
                                Port |-> sc.Spec.SolrAddressability.CommonServicePort]>>,
                   Selector |-> ServiceSelectorLabels(sc)]]

\* GenerateHeadlessService with the annotation decided by HideCommon
GenerateHeadlessServiceHideCommon(sc) ==
    LET labels == MapSet(SharedLabelsWith(sc, sc.Labels), ServiceTypeLabelKey, "headless")
        extOpts == sc.Spec.SolrAddressability.External
        annotations ==
            IF extOpts # Nil /\ Get(extOpts).Method = ExternalDNS /\ ~Get(extOpts).HideCommon
            THEN (ExternalDnsHostnameAnnotation :> JoinNames(ExternalDnsUrls(sc, Get(extOpts)), ","))
            ELSE EmptyMap
        customOptions == sc.Spec.CustomSolrKubeOptions.HeadlessServiceOptions
    IN  [Name |-> HeadlessServiceName(sc),
         Labels |-> IF customOptions # Nil
                    THEN MergeLabelsOrAnnotations(labels, Get(customOptions).Labels)
                    ELSE labels,
         Annotations |-> IF customOptions # Nil
                         THEN MergeLabelsOrAnnotations(annotations, Get(customOptions).Annotations)
                         ELSE annotations,
         Spec |-> [Ports |-> <<[Name |-> SolrClientPortName, Port |-> NodePort(sc)]>>,
                   Selector |-> ServiceSelectorLabels(sc)]]

GenerateHeadlessService(sc) ==
    LET labels == MapSet(SharedLabelsWith(sc, sc.Labels), ServiceTypeLabelKey, "headless")
        extOpts == sc.Spec.SolrAddressability.External
        annotations ==
            IF extOpts # Nil /\ Get(extOpts).Method = ExternalDNS /\ ~Get(extOpts).HideNodes
            THEN (ExternalDnsHostnameAnnotation :> JoinNames(ExternalDnsUrls(sc, Get(extOpts)), ","))
            ELSE EmptyMap
        customOptions == sc.Spec.CustomSolrKubeOptions.HeadlessServiceOptions
    IN  [Name |-> HeadlessServiceName(sc),
         Labels |-> IF customOptions # Nil
                    THEN MergeLabelsOrAnnotations(labels, Get(customOptions).Labels)
                    ELSE labels,
         Annotations |-> IF customOptions # Nil
                         THEN MergeLabelsOrAnnotations(annotations, Get(customOptions).Annotations)
                         ELSE annotations,
         Spec |-> [Ports |-> <<[Name |-> SolrClientPortName, Port |-> NodePort(sc)]>>,
                   Selector |-> ServiceSelectorLabels(sc)]]

GenerateNodeService(sc, nodeName) ==
    LET labels == MapSet(SharedLabelsWith(sc, sc.Labels), ServiceTypeLabelKey, "external")
        customOptions == sc.Spec.CustomSolrKubeOptions.NodeServiceOptions
    IN  [Name |-> nodeName,
         Labels |-> IF customOptions # Nil
                    THEN MergeLabelsOrAnnotations(labels, Get(customOptions).Labels)
                    ELSE labels,
         Annotations |-> IF customOptions # Nil
                         THEN MergeLabelsOrAnnotations(EmptyMap, Get(customOptions).Annotations)
                         ELSE EmptyMap,
         Spec |-> [Ports |-> <<[Name |-> SolrClientPortName, Port |-> NodePort(sc)]>>,
                   Selector |-> MapSet(ServiceSelectorLabels(sc),
                                       "statefulset.kubernetes.io/pod-name", nodeName)]]

(***************************************************************************)
(* GenerateIngress and the ingress rules                                   *)
(***************************************************************************)
BackendProtocolAnnotation == "nginx.ingress.kubernetes.io/backend-protocol"
SslRedirectAnnotation == "nginx.ingress.kubernetes.io/ssl-redirect"

CreateCommonIngressRule(sc, domainName) ==
    [Host |-> ExternalCommonUrl(sc, domainName),
     Service |-> [Name |-> CommonServiceName(sc),
                  Port |-> sc.Spec.SolrAddressability.CommonServicePort],
     PathType |-> "ImplementationSpecific"]

CreateNodeIngressRule(sc, nodeName, domainName) ==
    [Host |-> ExternalNodeUrl(sc, nodeName, domainName),
     Service |-> [Name |-> nodeName, Port |-> NodePort(sc)],
     PathType |-> "ImplementationSpecific"]

\* NodeIngressRules with the loops exchanged: for each domain, one rule per node
NodeIngressRulesDomainMajor(sc, nodeNames, domainNames) ==
    [i \in 1..(Len(nodeNames) * Len(domainNames)) |->
        CreateNodeIngressRule(sc, nodeNames[((i - 1) % Len(nodeNames)) + 1],
                              domainNames[((i - 1) \div Len(nodeNames)) + 1])]

\* lines 920-928: for each node, one rule per domain
RECURSIVE NodeIngressRules(_, _, _)
NodeIngressRules(sc, nodeNames, domainNames) ==
    IF Len(nodeNames) = 0 THEN <<>>
    ELSE [d \in DOMAIN domainNames |-> CreateNodeIngressRule(sc, nodeNames[1], domainNames[d])]
         \o NodeIngressRules(sc, Tail(nodeNames), domainNames)

CreateSolrIngressRules(sc, nodeNames, domainNames) ==
    LET ext == Get(sc.Spec.SolrAddressability.External)
        common == IF ~ext.HideCommon
                  THEN [d \in DOMAIN domainNames |-> CreateCommonIngressRule(sc, domainNames[d])]
                  ELSE <<>>
        nodes == IF ~ext.HideNodes
                 THEN NodeIngressRules(sc, nodeNames, domainNames)
                 ELSE <<>>
        ingressRules == common \o nodes
    IN  [ingressRules |-> ingressRules,
         allHosts |-> [i \in DOMAIN ingressRules |-> ingressRules[i].Host]]

\* GenerateIngress setting the backend protocol over the user's annotation
GenerateIngressBackendProtocolForced(sc, nodeNames) ==
    LET labels == SharedLabelsWith(sc, sc.Labels)
        customOptions == sc.Spec.CustomSolrKubeOptions.IngressOptions
        annotations0 == IF customOptions # Nil
                        THEN MergeLabelsOrAnnotations(EmptyMap, Get(customOptions).Annotations)
                        ELSE EmptyMap
        extOpts == Get(sc.Spec.SolrAddressability.External)
        allDomains == <<extOpts.DomainName>> \o extOpts.AdditionalDomainNames
        r == CreateSolrIngressRules(sc, nodeNames, allDomains)
        tls1 == IF sc.Spec.SolrTLS # Nil /\ Get(sc.Spec.SolrTLS).PKCS12Secret # Nil
                THEN <<[SecretName |-> Get(Get(sc.Spec.SolrTLS).PKCS12Secret).Name, Hosts |-> <<>>]>>
                ELSE <<>>
        ingressTLS == IF extOpts.IngressTLSTerminationSecret # ""
                      THEN Append(tls1, [SecretName |-> extOpts.IngressTLSTerminationSecret,
                                         Hosts |-> r.allHosts])
                      ELSE tls1
        solrNodesRequireTLS == sc.Spec.SolrTLS # Nil
        ingressFrontedByTLS == Len(ingressTLS) > 0
        annotations1 == MapSet(annotations0, BackendProtocolAnnotation,
                               IF solrNodesRequireTLS THEN "HTTPS" ELSE "HTTP")
        annotations == IF ingressFrontedByTLS /\ SslRedirectAnnotation \notin DOMAIN annotations1
                       THEN MapSet(annotations1, SslRedirectAnnotation, "true")
                       ELSE annotations1
    IN  Some([Name |-> CommonIngressName(sc),
              Labels |-> IF customOptions # Nil
                         THEN MergeLabelsOrAnnotations(labels, Get(customOptions).Labels)
                         ELSE labels,
              Annotations |-> annotations,
              Spec |-> [Rules |-> r.ingressRules, TLS |-> ingressTLS]])

\* GenerateIngress redirecting only for a TLS termination secret
GenerateIngressRedirectWithoutKeystore(sc, nodeNames) ==
    LET labels == SharedLabelsWith(sc, sc.Labels)
        customOptions == sc.Spec.CustomSolrKubeOptions.IngressOptions
        annotations0 == IF customOptions # Nil
                        THEN MergeLabelsOrAnnotations(EmptyMap, Get(customOptions).Annotations)
                        ELSE EmptyMap
        extOpts == Get(sc.Spec.SolrAddressability.External)
        allDomains == <<extOpts.DomainName>> \o extOpts.AdditionalDomainNames
        r == CreateSolrIngressRules(sc, nodeNames, allDomains)
        tls1 == IF sc.Spec.SolrTLS # Nil /\ Get(sc.Spec.SolrTLS).PKCS12Secret # Nil
                THEN <<[SecretName |-> Get(Get(sc.Spec.SolrTLS).PKCS12Secret).Name, Hosts |-> <<>>]>>
                ELSE <<>>
        ingressTLS == IF extOpts.IngressTLSTerminationSecret # ""
                      THEN Append(tls1, [SecretName |-> extOpts.IngressTLSTerminationSecret,
                                         Hosts |-> r.allHosts])
                      ELSE tls1
        solrNodesRequireTLS == sc.Spec.SolrTLS # Nil
        ingressFrontedByTLS == extOpts.IngressTLSTerminationSecret # ""
        annotations1 == IF BackendProtocolAnnotation \in DOMAIN annotations0 THEN annotations0
                        ELSE MapSet(annotations0, BackendProtocolAnnotation,
                                    IF solrNodesRequireTLS THEN "HTTPS" ELSE "HTTP")
        annotations == IF ingressFrontedByTLS /\ SslRedirectAnnotation \notin DOMAIN annotations1
                       THEN MapSet(annotations1, SslRedirectAnnotation, "true")
                       ELSE annotations1
    IN  Some([Name |-> CommonIngressName(sc),
              Labels |-> IF customOptions # Nil
                         THEN MergeLabelsOrAnnotations(labels, Get(customOptions).Labels)
                         ELSE labels,
              Annotations |-> annotations,
              Spec |-> [Rules |-> r.ingressRules, TLS |-> ingressTLS]])

GenerateIngress(sc, nodeNames) ==
    LET labels == SharedLabelsWith(sc, sc.Labels)
        customOptions == sc.Spec.CustomSolrKubeOptions.IngressOptions
        annotations0 == IF customOptions # Nil
                        THEN MergeLabelsOrAnnotations(EmptyMap, Get(customOptions).Annotations)
                        ELSE EmptyMap
        extOpts == Get(sc.Spec.SolrAddressability.External)
        allDomains == <<extOpts.DomainName>> \o extOpts.AdditionalDomainNames
        r == CreateSolrIngressRules(sc, nodeNames, allDomains)
        tls1 == IF sc.Spec.SolrTLS # Nil /\ Get(sc.Spec.SolrTLS).PKCS12Secret # Nil
                THEN <<[SecretName |-> Get(Get(sc.Spec.SolrTLS).PKCS12Secret).Name, Hosts |-> <<>>]>>
                ELSE <<>>
        ingressTLS == IF extOpts.IngressTLSTerminationSecret # ""
                      THEN Append(tls1, [SecretName |-> extOpts.IngressTLSTerminationSecret,
                                         Hosts |-> r.allHosts])
                      ELSE tls1
        solrNodesRequireTLS == sc.Spec.SolrTLS # Nil
        ingressFrontedByTLS == Len(ingressTLS) > 0
        annotations1 == IF BackendProtocolAnnotation \in DOMAIN annotations0 THEN annotations0
                        ELSE MapSet(annotations0, BackendProtocolAnnotation,
                                    IF solrNodesRequireTLS THEN "HTTPS" ELSE "HTTP")
        annotations == IF ingressFrontedByTLS /\ SslRedirectAnnotation \notin DOMAIN annotations1
                       THEN MapSet(annotations1, SslRedirectAnnotation, "true")
                       ELSE annotations1
    IN  Some([Name |-> CommonIngressName(sc),
              Labels |-> IF customOptions # Nil
                         THEN MergeLabelsOrAnnotations(labels, Get(customOptions).Labels)
                         ELSE labels,
              Annotations |-> annotations,
              Spec |-> [Rules |-> r.ingressRules, TLS |-> ingressTLS]])

(***************************************************************************)
(* generateSecurityJson, GenerateBasicAuthSecretWithBootstrap              *)
(***************************************************************************)

\* the HTTP path of a custom probe, if the probe is given and is an HTTP probe
ProbePath(probe) ==
    IF probe # Nil /\ Get(probe).HTTPGet # Nil THEN <<Get(Get(probe).HTTPGet).Path>> ELSE <<>>

GetCustomProbePaths(sc) ==
    LET podOptions == sc.Spec.CustomSolrKubeOptions.PodOptions
    IN  IF podOptions = Nil THEN <<>>
        ELSE ProbePath(Get(podOptions).ReadinessProbe)
             \o ProbePath(Get(podOptions).LivenessProbe)
             \o ProbePath(Get(podOptions).StartupProbe)

RECURSIVE uniqueProbePaths(_)
uniqueProbePaths(paths) ==
    IF Len(paths) = 0 THEN <<>>
    ELSE LET front == SubSeq(paths, 1, Len(paths) - 1)
             last == paths[Len(paths)]
         IN  IF last \in Range(front) THEN uniqueProbePaths(front)
             ELSE Append(uniqueProbePaths(front), last)

getProbePaths(sc) == uniqueProbePaths(<<DefaultProbePath>> \o GetCustomProbePaths(sc))

Users == <<"admin", DefaultBasicAuthUsername, "solr">>

\* lines 1196-1202 with the hash taken of a password drawn anew and not of
\* the one kept for the secret
UserAtRedrawn ==
    [t \in 1..MaxClock |->
        LET drawn == randomPassword(t)
            again == randomPassword((t % MaxClock) + 1)
        IN  [password |-> drawn.pass,
             credential |-> solrPasswordHash(again.pass, drawn.rng)]]

\* lines 1196-1202: what one user gets when the clock reads t at its
\* randomPassword call: the password, and its hash, which uses the global
\* source as that draw leaves it
UserAt ==
    [t \in 1..MaxClock |->
        LET drawn == randomPassword(t)
        IN  [password |-> drawn.pass,
             credential |-> solrPasswordHash(drawn.pass, drawn.rng)]]

\* user number i draws when the clock reads now[i]
UserPassword(now, i) == UserAt[now[i]].password
UserCredential(now, i) == UserAt[now[i]].credential

\* generateSecurityJson with one randomPassword call for the three users
generateSecurityJsonOneDraw(sc, now) ==
    LET probesRequireAuth == Get(sc.Spec.SolrSecurity).ProbesRequireAuth
        blockUnknown == probesRequireAuth
        probeRole == IF probesRequireAuth THEN "k8s" ELSE "null"
        probePaths == getProbePaths(sc)
        probeAuthz == [i \in DOMAIN probePaths |->
                        [name |-> <<"k8s-probe", i - 1>>,
                         role |-> probeRole,
                         path |-> IF HasPrefix(probePaths[i], SolrPrefix)
                                  THEN SubSeq(probePaths[i], Len(SolrPrefix) + 1, Len(probePaths[i]))
                                  ELSE probePaths[i]]]
        secretData == [u \in Range(Users) |-> UserPassword(now, 1)]
        credentials == [u \in Range(Users) |-> UserCredential(now, 1)]
        securityJson ==
            [authentication |-> [blockUnknown |-> blockUnknown,
                                 class |-> "solr.BasicAuthPlugin",
                                 credentials |-> credentials],
             authorization |-> [class |-> "solr.RuleBasedAuthorizationPlugin",
                                userRole |-> [u \in Range(Users) |->
                                                IF u = "admin" THEN <<"admin", "k8s">>
                                                ELSE IF u = "solr" THEN <<"users", "k8s">>
                                                ELSE <<"k8s">>],
                                probePermissions |-> probeAuthz]]
    IN  [k \in Range(Users) \cup {SecurityJsonFile} |->
            IF k = SecurityJsonFile THEN securityJson ELSE secretData[k]]

generateSecurityJson(sc, now) ==
    LET probesRequireAuth == Get(sc.Spec.SolrSecurity).ProbesRequireAuth
        blockUnknown == probesRequireAuth
        probeRole == IF probesRequireAuth THEN "k8s" ELSE "null"
        probePaths == getProbePaths(sc)
        probeAuthz == [i \in DOMAIN probePaths |->
                        [name |-> <<"k8s-probe", i - 1>>,
                         role |-> probeRole,
                         path |-> IF HasPrefix(probePaths[i], SolrPrefix)
                                  THEN SubSeq(probePaths[i], Len(SolrPrefix) + 1, Len(probePaths[i]))
                                  ELSE probePaths[i]]]
        secretData == [u \in Range(Users) |->
                        UserPassword(now, CHOOSE i \in DOMAIN Users : Users[i] = u)]
        credentials == [u \in Range(Users) |->
                        UserCredential(now, CHOOSE i \in DOMAIN Users : Users[i] = u)]
        securityJson ==
            [authentication |-> [blockUnknown |-> blockUnknown,
                                 class |-> "solr.BasicAuthPlugin",
                                 credentials |-> credentials],
             authorization |-> [class |-> "solr.RuleBasedAuthorizationPlugin",
                                userRole |-> [u \in Range(Users) |->
                                                IF u = "admin" THEN <<"admin", "k8s">>
                                                ELSE IF u = "solr" THEN <<"users", "k8s">>
                                                ELSE <<"k8s">>],
                                probePermissions |-> probeAuthz]]
    IN  [k \in Range(Users) \cup {SecurityJsonFile} |->
            IF k = SecurityJsonFile THEN securityJson ELSE secretData[k]]

\* GenerateBasicAuthSecretWithBootstrap naming the bootstrap secret after
\* the basic-auth secret
GenerateBasicAuthSecretWithBootstrapOneName(sc, now) ==
    LET securityBootstrapInfo == generateSecurityJson(sc, now)
        labels == SharedLabelsWith(sc, sc.Labels)
        basicAuthSecret ==
            [Name |-> BasicAuthSecretName(sc),
             Labels |-> labels,
             Annotations |-> EmptyMap,
             Data |-> [k \in {BasicAuthUsernameKey, BasicAuthPasswordKey} |->
                        IF k = BasicAuthUsernameKey THEN DefaultBasicAuthUsername
                        ELSE securityBootstrapInfo[DefaultBasicAuthUsername]],
             Type |-> "kubernetes.io/basic-auth"]
        boostrapSecuritySecret ==
            [Name |-> BasicAuthSecretName(sc),
             Labels |-> labels,
             Annotations |-> EmptyMap,
             Data |-> [k \in {"admin", "solr", SecurityJsonFile} |-> securityBootstrapInfo[k]],
             Type |-> "Opaque"]
    IN  <<basicAuthSecret, boostrapSecuritySecret>>

\* GenerateBasicAuthSecretWithBootstrap naming both secrets without the
\* name of the instance
GenerateBasicAuthSecretWithBootstrapSharedNames(sc, now) ==
    LET securityBootstrapInfo == generateSecurityJson(sc, now)
        labels == SharedLabelsWith(sc, sc.Labels)
        basicAuthSecret ==
            [Name |-> BasicAuthSecretName(DefaultSolrCloud("example")),
             Labels |-> labels,
             Annotations |-> EmptyMap,
             Data |-> [k \in {BasicAuthUsernameKey, BasicAuthPasswordKey} |->
                        IF k = BasicAuthUsernameKey THEN DefaultBasicAuthUsername
                        ELSE securityBootstrapInfo[DefaultBasicAuthUsername]],
             Type |-> "kubernetes.io/basic-auth"]
        boostrapSecuritySecret ==
            [Name |-> SecurityBootstrapSecretName(DefaultSolrCloud("example")),
             Labels |-> labels,
             Annotations |-> EmptyMap,
             Data |-> [k \in {"admin", "solr", SecurityJsonFile} |-> securityBootstrapInfo[k]],
             Type |-> "Opaque"]
    IN  <<basicAuthSecret, boostrapSecuritySecret>>

\* GenerateBasicAuthSecretWithBootstrap handing the password of the
\* administrator out in the basic-auth secret
GenerateBasicAuthSecretWithBootstrapAdminPassword(sc, now) ==
    LET securityBootstrapInfo == generateSecurityJson(sc, now)
        labels == SharedLabelsWith(sc, sc.Labels)
        basicAuthSecret ==
            [Name |-> BasicAuthSecretName(sc),
             Labels |-> labels,
             Annotations |-> EmptyMap,
             Data |-> [k \in {BasicAuthUsernameKey, BasicAuthPasswordKey} |->
                        IF k = BasicAuthUsernameKey THEN DefaultBasicAuthUsername
                        ELSE securityBootstrapInfo["admin"]],
             Type |-> "kubernetes.io/basic-auth"]
        boostrapSecuritySecret ==
            [Name |-> SecurityBootstrapSecretName(sc),
             Labels |-> labels,
             Annotations |-> EmptyMap,
             Data |-> [k \in {"admin", "solr", SecurityJsonFile} |-> securityBootstrapInfo[k]],
             Type |-> "Opaque"]
    IN  <<basicAuthSecret, boostrapSecuritySecret>>

GenerateBasicAuthSecretWithBootstrap(sc, now) ==
    LET securityBootstrapInfo == generateSecurityJson(sc, now)
        labels == SharedLabelsWith(sc, sc.Labels)
        basicAuthSecret ==
            [Name |-> BasicAuthSecretName(sc),
             Labels |-> labels,
             Annotations |-> EmptyMap,
             Data |-> [k \in {BasicAuthUsernameKey, BasicAuthPasswordKey} |->
                        IF k = BasicAuthUsernameKey THEN DefaultBasicAuthUsername
                        ELSE securityBootstrapInfo[DefaultBasicAuthUsername]],
             Type |-> "kubernetes.io/basic-auth"]
        boostrapSecuritySecret ==
            [Name |-> SecurityBootstrapSecretName(sc),
             Labels |-> labels,
             Annotations |-> EmptyMap,
             Data |-> [k \in {"admin", "solr", SecurityJsonFile} |-> securityBootstrapInfo[k]],
             Type |-> "Opaque"]
    IN  <<basicAuthSecret, boostrapSecuritySecret>>

(***************************************************************************)
(* ValidateBasicAuthSecret: the error, if any, and the secret as the call  *)
(* leaves it                                                               *)
(***************************************************************************)
SecretTypeBasicAuth == "kubernetes.io/basic-auth"

\* ValidateBasicAuthSecret without the check of the password key
ValidateBasicAuthSecretNoPasswordCheck(basicAuthSecret) ==
    [err |-> IF basicAuthSecret.Type # SecretTypeBasicAuth
             THEN Some("invalid secret type")
             ELSE IF BasicAuthUsernameKey \notin DOMAIN basicAuthSecret.Data
             THEN Some("username key not found")
             ELSE Nil,
     basicAuthSecret |-> basicAuthSecret]

ValidateBasicAuthSecret(basicAuthSecret) ==
    [err |-> IF basicAuthSecret.Type # SecretTypeBasicAuth
             THEN Some("invalid secret type")
             ELSE IF BasicAuthUsernameKey \notin DOMAIN basicAuthSecret.Data
             THEN Some("username key not found")
             ELSE IF BasicAuthPasswordKey \notin DOMAIN basicAuthSecret.Data
             THEN Some("password key not found")
             ELSE Nil,
     basicAuthSecret |-> basicAuthSecret]

(***************************************************************************)
(* Inputs                                                                  *)
(***************************************************************************)
ExampleName == "example"
OtherName == "other"
Instances == {ExampleName, OtherName}

\* the label maps a user may give: none, a label of their own, and labels
\* that reuse the keys the operator sets itself
LabelMaps(v) ==
    {EmptyMap,
     ("app" :> v),
     ("app" :> v) @@ (TechnologyLabelKey :> v) @@ (InstanceLabelKey :> v)}

\* the annotations given along with a label map: one under every key of
\* the labels and one under a key no label has
AnnotationsFor(labels, v) == [k \in DOMAIN labels \cup {"note"} |-> "annotation-" \o v]

\* a custom options block (labels and annotations) of one object kind
OptionBlocks(v) ==
    {Nil} \cup {Some([Labels |-> l, Annotations |-> AnnotationsFor(l, v)]) : l \in LabelMaps(v)}

\* PodOptions: labels, annotations and the custom probes
PodOptionsOf(block) ==
    IF block = Nil THEN Nil
    ELSE Some([NoPodOptions EXCEPT !.Labels = Get(block).Labels,
                                   !.Annotations = Get(block).Annotations])

RECURSIVE SeqsUpTo(_, _)
SeqsUpTo(S, n) ==
    IF n = 0 THEN {<<>>}
    ELSE SeqsUpTo(S, n - 1) \cup {Append(q, x) : q \in {r \in SeqsUpTo(S, n - 1) : Len(r) = n - 1}, x \in S}

Externals ==
    {Nil} \cup
    {Some([Method |-> m, DomainName |-> d, AdditionalDomainNames |-> a,
           HideCommon |-> hc, HideNodes |-> hn, IngressTLSTerminationSecret |-> t]) :
        m \in {Ingress, ExternalDNS}, d \in {"", "a.test"},
        a \in SeqsUpTo({"b.test"}, MaxDomains),
        hc \in BOOLEAN, hn \in BOOLEAN, t \in {"", "tls-secret"}}

\* the domain lists handed to CreateSolrIngressRules
DomainLists == SeqsUpTo({"a.test", "b.test"}, MaxDomains + 1)

\* the pods of the StatefulSet, by ordinal
NodeName(sc, n) ==
    StatefulSetName(sc) \o (IF n = 0 THEN "-0" ELSE IF n = 1 THEN "-1" ELSE IF n = 2 THEN "-2" ELSE "-3")
NodeNameLists(sc) == {[i \in 1..m |-> NodeName(sc, i - 1)] : m \in 0..MaxNodes}

Repos ==
    {[Name |-> <<97>>, Kind |-> GCS], [Name |-> <<98>>, Kind |-> S3],
     [Name |-> <<97, 97>>, Kind |-> Managed]}
RepoLists == SeqsUpTo(Repos, MaxRepos)

HostMaps ==
    {EmptyMap,
     (<<104, 50>> :> "10.0.0.2") @@ (<<104, 49>> :> "10.0.0.1")}    \* h2, h1

Status == [ZkConnectionString |-> "zk:2181/example", ZkServer |-> "zk:2181", ChRoot |-> "/example"]
ReconcileConfigInfo == (SolrXmlFile :> ConfigMapName(DefaultSolrCloud(ExampleName)))

\* passwords handed to solrPasswordHash: the empty one, short ones, one
\* with a space, one of every byte class, and one randomPassword draws
Passwords ==
    {<<>>, <<97>>, <<97, 98>>, <<112, 32, 119>>, <<0, 255, 61, 43, 47>>,
     randomPassword(1).pass}

\* states the global source may be in when the salt is drawn
Seeds == 0..MaxSeed

\* three readings of the clock, one after the other, none before t
NowTriples(t) == {n \in [1..3 -> t..MaxClock] : n[1] <= n[2] /\ n[2] <= n[3]}

\* the grace periods a user may give: none, the ends of the integer range
\* and the values around 0 and 5
GracePeriods ==
    {Nil} \cup {Some(g) : g \in {MinInt, MinInt + 4, MinInt + 5, -1, 0, 4, 5, 6, 30, MaxInt}}

\* the lifecycle a user gives the Solr container: none, a pre-stop hook
\* only, a post-start hook and a pre-stop hook
CustomLifecycles ==
    {Nil,
     Some([PostStart |-> Nil,
           PreStop |-> Some([Exec |-> [Command |-> <<"sleep", "5">>]])]),
     Some([PostStart |-> Some([Exec |-> [Command |-> <<"sh", "-c", <<"echo started">>>>]]),
           PreStop |-> Some([Exec |-> [Command |-> <<"sleep", "5">>]])])}

\* the security context a user gives the pod
CustomPodSecurityContexts == {Nil, Some([FSGroup |-> Some(1000)])}

\* the status of the cloud: no chroot, the root as chroot, a chroot of its own
Statuses ==
    {[ZkConnectionString |-> "zk:2181" \o chroot, ZkServer |-> "zk:2181", ChRoot |-> chroot] :
        chroot \in {"", "/", "/example"}}

\* what the reconcile pass knows of the configuration: the ConfigMap of
\* solr.xml, with or without the checksum of a solr.xml the user provides
ConfigInfos ==
    {ReconcileConfigInfo, ReconcileConfigInfo @@ (SolrXmlMd5Annotation :> "0cc175b9c0f1b6a8")}

\* the volumes a user adds to the pod: with a default container mount (its
\* name left empty, or given) and without one
CustomPodVolumes ==
    {<<>>,
     <<[Name |-> "extra", Source |-> [NoSource EXCEPT !.EmptyDir = Some([SizeLimit |-> ""])],
        DefaultContainerMount |-> Nil]>>,
     <<[Name |-> "extra", Source |-> [NoSource EXCEPT !.EmptyDir = Some([SizeLimit |-> ""])],
        DefaultContainerMount |-> Some([Name |-> "", MountPath |-> "/extra"])]>>,
     <<[Name |-> "extra", Source |-> [NoSource EXCEPT !.EmptyDir = Some([SizeLimit |-> ""])],
        DefaultContainerMount |-> Some([Name |-> "extra", MountPath |-> "/extra"])],
       [Name |-> "more", Source |-> [NoSource EXCEPT !.EmptyDir = Some([SizeLimit |-> ""])],
        DefaultContainerMount |-> Some([Name |-> "data", MountPath |-> "/more"])]>>}

\* what setup-zk is told of the user's configuration: a security.json is to
\* be bootstrapped
SecurityConfigInfo == ReconcileConfigInfo @@ (SecurityJsonFile :> "bootstrap")

\* the policy documents the bootstrap secret may hold, and the contents of
\* /security.json other than these: none, the empty object, a document an
\* administrator uploaded
FirstBootstrapDoc == "{\"authentication\":{\"credentials\":1}}"
BootstrapDocs == {FirstBootstrapDoc, "{\"authentication\":{\"credentials\":2}}"}
ZkSecurityTexts == {"", "{}", "{\"authentication\":{\"class\":\"other\"}}"}
ZkStates == [chroot : BOOLEAN, security : ZkSecurityTexts]

\* the pods of the StatefulSet, by ordinal
Pods == 0..(MaxPods - 1)

\* a pod that runs no command
IdlePod == [at |-> 0, cmd |-> <<>>, sub |-> "", SECURITY_JSON |-> "", ZK_SECURITY_JSON |-> ""]

\* the secrets a user may hand in: of any type, with any of the two keys
\* and a key of their own, under empty and non-empty values
SecretTypes == {SecretTypeBasicAuth, "Opaque", "kubernetes.io/tls"}
UserSecrets ==
    {[Name |-> "user-secret", Type |-> t, Data |-> d] :
        t \in SecretTypes,
        d \in UNION {[K -> {"", "v"}] :
                        K \in SUBSET {BasicAuthUsernameKey, BasicAuthPasswordKey, "token"}}}

\* spec.solrTLS: the client authentication asked of callers, the keystore
SolrTLSOptions ==
    {Nil} \cup {Some([ClientAuth |-> ca, PKCS12Secret |-> ks]) :
                    ca \in {"None", "Want", "Need"},
                    ks \in {Nil, Some([Name |-> "keystore-secret"])}}

\* the certificates the caller hands to GenerateStatefulSet: those of
\* spec.solrTLS, none without it
TLSCertsOf(sc) ==
    IF sc.Spec.SolrTLS = Nil THEN Nil
    ELSE Some([ServerConfig |-> Some([Options |-> Get(sc.Spec.SolrTLS)])])

SolrSecurityOptions == {Nil} \cup {Some([ProbesRequireAuth |-> b]) : b \in BOOLEAN}

\* probes a user may set: none, an HTTP probe on the default path with and
\* without the /solr prefix or on a path of their own, a command, and a
\* probe that only changes the timeout
CustomProbePaths ==
    {SolrPrefix \o DefaultProbePath, DefaultProbePath, SolrPrefix \o <<47, 112>>}
CustomProbes ==
    {Nil, Some([TimeoutSeconds |-> 9, HTTPGet |-> Nil, Exec |-> Nil]),
     Some([TimeoutSeconds |-> 0, HTTPGet |-> Nil, Exec |-> Some([Command |-> <<"true">>])])}
    \cup {Some([TimeoutSeconds |-> 0,
                HTTPGet |-> Some([Scheme |-> "HTTP", Path |-> p, Port |-> 8983]),
                Exec |-> Nil]) : p \in CustomProbePaths}

\* spec.dataStorage: a claim template (name, labels, access modes, volume
\* mode given or not), an ephemeral block (host path, empty dir given or not)
PVCLabelMaps ==
    {EmptyMap,
     ("team" :> "search"),
     ("team" :> "search") @@ (SolrPVCTechnologyLabel :> "mine") @@ (SolrPVCInstanceLabel :> "mine")}
PersistentStorageOptions ==
    {Nil} \cup
    {Some([PersistentVolumeClaimTemplate |->
            [ObjectMeta |-> [Name |-> n, Labels |-> l, Annotations |-> EmptyMap],
             Spec |-> [AccessModes |-> am, VolumeMode |-> vm]]]) :
        n \in {"", "solr-data"}, l \in PVCLabelMaps,
        am \in {<<>>, <<"ReadWriteMany">>}, vm \in {Nil, Some("Block")}}
EphemeralStorageOptions ==
    {Nil} \cup
    {Some([HostPath |-> hp, EmptyDir |-> ed]) :
        hp \in {Nil, Some([Path |-> "/mnt/solr"])},
        ed \in {Nil, Some([SizeLimit |-> "1Gi"])}}
StorageOptions ==
    {[PersistentStorage |-> p, EphemeralStorage |-> e] :
        p \in PersistentStorageOptions, e \in EphemeralStorageOptions}

\* the ingress options of a user who sets annotations: any of the two
\* annotations the operator sets itself, and one of their own
IngressAnnotationMaps ==
    UNION {[K -> {"user"}] : K \in SUBSET {BackendProtocolAnnotation, SslRedirectAnnotation, "note"}}
IngressOptionBlocks ==
    {Nil} \cup {Some([Labels |-> EmptyMap, Annotations |-> a]) : a \in IngressAnnotationMaps}

(***************************************************************************)
(* State                                                                   *)
(***************************************************************************)
Passes == {<<ExampleName, 1>>, <<ExampleName, 2>>, <<OtherName, 1>>}
InstanceOf(p) == p[1]

SecretNames ==
    UNION {{BasicAuthSecretName(DefaultSolrCloud(i)),
            SecurityBootstrapSecretName(DefaultSolrCloud(i))} : i \in Instances}

\* the example cloud: addressed through an ingress on one domain, with the
\* security bootstrap requested
InitExternal ==
    Some([Method |-> Ingress, DomainName |-> "a.test", AdditionalDomainNames |-> <<>>,
          HideCommon |-> FALSE, HideNodes |-> FALSE, IngressTLSTerminationSecret |-> ""])

InitSolrCloud ==
    [DefaultSolrCloud(ExampleName) EXCEPT
        !.Spec.SolrAddressability.External = InitExternal,
        !.Spec.SolrSecurity = Some([ProbesRequireAuth |-> FALSE])]

Init ==
    /\ solrCloud = InitSolrCloud
    /\ out = Nil
    /\ prev = Nil
    /\ secrets = [n \in SecretNames |-> Nil]
    /\ pc = [p \in Passes |-> "idle"]
    /\ found = [p \in Passes |-> FALSE]
    /\ generated = [p \in Passes |-> Nil]
    /\ clock = 1
    /\ issued = [i \in Instances |-> {}]
    /\ overlapped = [i \in Instances |-> FALSE]
    /\ firstSelector = Nil
    /\ zk = [chroot |-> FALSE, security |-> ""]
    /\ bootstrap = FirstBootstrapDoc
    /\ setup = [pod \in Pods |-> IdlePod]
    /\ settled = FALSE

reconcileVars == <<secrets, pc, found, generated, issued, overlapped>>
zkVars == <<zk, bootstrap, setup, settled>>

(***************************************************************************)
(* The user edits the SolrCloud object.  The objects derived from the old  *)
(* object leave the model's view.                                          *)
(***************************************************************************)
Edit(sc) ==
    /\ sc # solrCloud
    /\ solrCloud' = sc
    /\ out' = Nil
    /\ prev' = Nil
    /\ UNCHANGED <<reconcileVars, zkVars, clock, firstSelector>>

EditLabels == \E l \in LabelMaps("global") : Edit([solrCloud EXCEPT !.Labels = l])

EditOptions ==
    \E ss \in OptionBlocks("statefulset"), other \in OptionBlocks("kind") :
        Edit([solrCloud EXCEPT !.Spec.CustomSolrKubeOptions =
                [StatefulSetOptions |-> ss,
                 PodOptions |-> PodOptionsOf(other),
                 ConfigMapOptions |-> other,
                 CommonServiceOptions |-> other,
                 HeadlessServiceOptions |-> other,
                 NodeServiceOptions |-> other,
                 IngressOptions |-> other]])

EditExternal == \E ext \in Externals : Edit([solrCloud EXCEPT !.Spec.SolrAddressability.External = ext])

EditBackupRepositories == \E l \in RepoLists : Edit([solrCloud EXCEPT !.Spec.BackupRepositories = l])

EditTLS == \E t \in SolrTLSOptions : Edit([solrCloud EXCEPT !.Spec.SolrTLS = t])

EditSecurity == \E s \in SolrSecurityOptions : Edit([solrCloud EXCEPT !.Spec.SolrSecurity = s])

\* the user sets or removes one of the three probes
EditProbes ==
    \E field \in {"ReadinessProbe", "LivenessProbe", "StartupProbe"}, probe \in CustomProbes :
        LET podOptions == solrCloud.Spec.CustomSolrKubeOptions.PodOptions
            base == IF podOptions = Nil THEN NoPodOptions ELSE Get(podOptions)
        IN  Edit([solrCloud EXCEPT !.Spec.CustomSolrKubeOptions.PodOptions =
                    Some([base EXCEPT ![field] = probe])])

\* the user sets the custom volumes of the pod
EditVolumes ==
    \E volumes \in CustomPodVolumes :
        LET podOptions == solrCloud.Spec.CustomSolrKubeOptions.PodOptions
            base == IF podOptions = Nil THEN NoPodOptions ELSE Get(podOptions)
        IN  Edit([solrCloud EXCEPT !.Spec.CustomSolrKubeOptions.PodOptions =
                    Some([base EXCEPT !.Volumes = volumes])])

\* the user sets the annotations of the pod
EditPodAnnotations ==
    \E annotations \in {EmptyMap, ("note" :> "annotation-pod")} :
        LET podOptions == solrCloud.Spec.CustomSolrKubeOptions.PodOptions
            base == IF podOptions = Nil THEN NoPodOptions ELSE Get(podOptions)
        IN  Edit([solrCloud EXCEPT !.Spec.CustomSolrKubeOptions.PodOptions =
                    Some([base EXCEPT !.Annotations = annotations])])

\* the user sets the termination grace period of the pod
EditGracePeriod ==
    \E grace \in GracePeriods :
        LET podOptions == solrCloud.Spec.CustomSolrKubeOptions.PodOptions
            base == IF podOptions = Nil THEN NoPodOptions ELSE Get(podOptions)
        IN  Edit([solrCloud EXCEPT !.Spec.CustomSolrKubeOptions.PodOptions =
                    Some([base EXCEPT !.TerminationGracePeriodSeconds = grace])])

\* the user sets the lifecycle of the Solr container
EditLifecycle ==
    \E lifecycle \in CustomLifecycles :
        LET podOptions == solrCloud.Spec.CustomSolrKubeOptions.PodOptions
            base == IF podOptions = Nil THEN NoPodOptions ELSE Get(podOptions)
        IN  Edit([solrCloud EXCEPT !.Spec.CustomSolrKubeOptions.PodOptions =
                    Some([base EXCEPT !.Lifecycle = lifecycle])])

\* the user sets the security context of the pod
EditPodSecurityContext ==
    \E context \in CustomPodSecurityContexts :
        LET podOptions == solrCloud.Spec.CustomSolrKubeOptions.PodOptions
            base == IF podOptions = Nil THEN NoPodOptions ELSE Get(podOptions)
        IN  Edit([solrCloud EXCEPT !.Spec.CustomSolrKubeOptions.PodOptions =
                    Some([base EXCEPT !.PodSecurityContext = context])])

EditStorage == \E o \in StorageOptions : Edit([solrCloud EXCEPT !.Spec.StorageOptions = o])

EditIngressOptions ==
    \E o \in IngressOptionBlocks :
        Edit([solrCloud EXCEPT !.Spec.CustomSolrKubeOptions.IngressOptions = o])

\* the user names or removes the secret the ingress terminates TLS with
EditTerminationSecret ==
    /\ solrCloud.Spec.SolrAddressability.External # Nil
    /\ \E t \in {"", "tls-secret"} :
        Edit([solrCloud EXCEPT !.Spec.SolrAddressability.External =
                Some([Get(@) EXCEPT !.IngressTLSTerminationSecret = t])])

(***************************************************************************)
(* A generator is called on the SolrCloud object.                          *)
(***************************************************************************)
\* the call returns obj and leaves the SolrCloud object it was handed as sc
ReturnLeaving(kind, obj, args, sc) ==
    /\ out' = Some([kind |-> kind, obj |-> obj, solrCloud |-> solrCloud, args |-> args])
    /\ prev' = IF out # Nil /\ Get(out).kind = kind /\ Get(out).args = args THEN out ELSE Nil
    /\ solrCloud' = sc
    /\ UNCHANGED <<reconcileVars, zkVars>>

Return(kind, obj, args) == ReturnLeaving(kind, obj, args, solrCloud)

GenStatefulSetOn(statuses, infos) ==
    \E solrCloudStatus \in statuses, reconcileConfigInfo \in infos, hostNameIPs \in HostMaps :
        \E rangeOrder \in RangeOrders(DOMAIN hostNameIPs) :
            LET stateful == GenerateStatefulSet(solrCloud, solrCloudStatus, hostNameIPs,
                                               reconcileConfigInfo, TLSCertsOf(solrCloud), rangeOrder)
            IN  /\ ReturnLeaving("StatefulSet", stateful,
                                 <<solrCloudStatus, hostNameIPs, reconcileConfigInfo>>,
                                 GenerateStatefulSetLeaves(solrCloud, reconcileConfigInfo))
                /\ firstSelector' = IF firstSelector = Nil
                                    THEN Some(stateful.Spec.Selector.MatchLabels)
                                    ELSE firstSelector
                /\ UNCHANGED clock

\* GenerateStatefulSet on the status and configuration of the example cloud
GenStatefulSet == GenStatefulSetOn({Status}, {ReconcileConfigInfo})

\* GenerateStatefulSet on every status and configuration
GenStatefulSetAny == GenStatefulSetOn(Statuses, ConfigInfos)

\* the user turns persistent storage off or on, the claim template left
\* without a name or named
ClaimTemplateNames == {"", "data", "solr-data"}
EditClaimTemplate ==
    \E p \in {Nil} \cup
             {Some([PersistentVolumeClaimTemplate |->
                     [ObjectMeta |-> [Name |-> n, Labels |-> EmptyMap, Annotations |-> EmptyMap],
                      Spec |-> [AccessModes |-> <<>>, VolumeMode |-> Nil]]]) :
                 n \in ClaimTemplateNames} :
        Edit([solrCloud EXCEPT !.Spec.StorageOptions.PersistentStorage = p])

\* the configuration without a log configuration of the user, with one in
\* the ConfigMap of solr.xml and with one in a ConfigMap of its own
LogConfigInfos ==
    {ReconcileConfigInfo,
     ReconcileConfigInfo @@ (LogXmlFile :> ReconcileConfigInfo[SolrXmlFile]),
     ReconcileConfigInfo @@ (LogXmlFile :> "user-log-config")}

GenStatefulSetLogConfig == GenStatefulSetOn({Status}, LogConfigInfos)

(***************************************************************************)
(* GenerateStatefulSet statement by statement: the workload is assembled,  *)
(* the pod options of the user are applied, TLS is enabled, and the        *)
(* workload is returned.  The call in progress is kept in out, with the    *)
(* statements it has run.                                                  *)
(***************************************************************************)
InCall(at) == out # Nil /\ Get(out).kind = "GenerateStatefulSet" /\ Get(out).pc = at

\* lines 71-491
CallGenerateStatefulSet ==
    \E hostNameIPs \in HostMaps : \E rangeOrder \in RangeOrders(DOMAIN hostNameIPs) :
        /\ ~(out # Nil /\ Get(out).kind = "GenerateStatefulSet")
        /\ out' = Some([kind |-> "GenerateStatefulSet",
                        pc |-> "customPodOptions",
                        obj |-> AssembleStatefulSet(solrCloud, Status, hostNameIPs,
                                                    ReconcileConfigInfo, TLSCertsOf(solrCloud),
                                                    rangeOrder),
                        solrCloud |-> solrCloud,
                        tls |-> TLSCertsOf(solrCloud),
                        args |-> <<Status, hostNameIPs, ReconcileConfigInfo>>,
                        steps |-> <<"assemble">>])
        /\ prev' = Nil
        /\ solrCloud' = GenerateStatefulSetLeaves(solrCloud, ReconcileConfigInfo)
        /\ UNCHANGED <<reconcileVars, zkVars, clock, firstSelector>>

\* lines 493-559
StepCustomPodOptions ==
    /\ InCall("customPodOptions")
    /\ out' = Some([Get(out) EXCEPT
                    !.pc = "enableTLS",
                    !.obj = ApplyCustomPodOptions(Get(out).solrCloud, @),
                    !.steps = IF Get(out).solrCloud.Spec.CustomSolrKubeOptions.PodOptions # Nil
                              THEN Append(@, "customPodOptions") ELSE @])
    /\ UNCHANGED <<solrCloud, prev, reconcileVars, zkVars, clock, firstSelector>>

\* lines 561-566
StepEnableTLS ==
    /\ InCall("enableTLS")
    /\ out' = Some([Get(out) EXCEPT
                    !.kind = "StatefulSet",
                    !.pc = "returned",
                    !.obj = IF Get(out).tls # Nil
                            THEN enableTLSOnSolrCloudStatefulSet(Get(out).tls, @) ELSE @,
                    !.steps = IF Get(out).tls # Nil THEN Append(@, "enableTLS") ELSE @])
    /\ UNCHANGED <<solrCloud, prev, reconcileVars, zkVars, clock, firstSelector>>

GenConfigMap ==
    \E rangeOrder \in RangeOrders(RepoLibs(solrCloud.Spec.BackupRepositories)) :
        /\ Return("ConfigMap", GenerateConfigMap(solrCloud, rangeOrder), <<>>)
        /\ UNCHANGED <<clock, firstSelector>>

GenCommonService ==
    /\ Return("CommonService", GenerateCommonService(solrCloud), <<>>)
    /\ UNCHANGED <<clock, firstSelector>>

GenHeadlessService ==
    /\ Return("HeadlessService", GenerateHeadlessService(solrCloud), <<>>)
    /\ UNCHANGED <<clock, firstSelector>>

GenNodeService ==
    \E nodeName \in {NodeName(solrCloud, 0)} :
        /\ Return("NodeService", GenerateNodeService(solrCloud, nodeName), <<nodeName>>)
        /\ UNCHANGED <<clock, firstSelector>>

\* the caller generates the ingress when the addressability method asks for one
GenIngress ==
    /\ solrCloud.Spec.SolrAddressability.External # Nil
    /\ Get(solrCloud.Spec.SolrAddressability.External).Method = Ingress
    /\ \E nodeNames \in NodeNameLists(solrCloud) :
        Return("Ingress", GenerateIngress(solrCloud, nodeNames), <<nodeNames>>)
    /\ UNCHANGED <<clock, firstSelector>>

\* CreateSolrIngressRules called on its own, on any list of domains
GenIngressRules ==
    /\ solrCloud.Spec.SolrAddressability.External # Nil
    /\ \E nodeNames \in NodeNameLists(solrCloud), domainNames \in DomainLists :
        Return("IngressRules", CreateSolrIngressRules(solrCloud, nodeNames, domainNames),
               <<nodeNames, domainNames>>)
    /\ UNCHANGED <<clock, firstSelector>>

\* GenerateBasicAuthSecretWithBootstrap called on its own: each of its three
\* passwords seeds the global source from the clock
GenBasicAuthSecretWithBootstrap ==
    /\ solrCloud.Spec.SolrSecurity # Nil
    /\ \E now \in NowTriples(clock) :
        /\ Return("Secrets", GenerateBasicAuthSecretWithBootstrap(solrCloud, now), <<>>)
        /\ clock' = now[3]
    /\ UNCHANGED firstSelector

\* solrPasswordHash called on a password, the global source in state rng
HashPassword ==
    /\ \E passBytes \in Passwords, rng \in Seeds :
        Return("PasswordHash", solrPasswordHash(passBytes, rng), <<passBytes, rng>>)
    /\ UNCHANGED <<clock, firstSelector>>

\* ValidateBasicAuthSecret called on a secret the user provides
ValidateSecret ==
    /\ \E basicAuthSecret \in UserSecrets :
        Return("Validate", ValidateBasicAuthSecret(basicAuthSecret), <<basicAuthSecret>>)
    /\ UNCHANGED <<clock, firstSelector>>

(***************************************************************************)
(* The reconcile pass of the controller, as far as the security bootstrap  *)
(* goes: look the bootstrap secret up, generate the secrets if there is    *)
(* none, persist them.  Every pass reconciles the SolrCloud of its         *)
(* instance; the instances differ by name.                                 *)
(***************************************************************************)
CloudFor(i) == [solrCloud EXCEPT !.Name = i]

OtherPassInFlight(p) ==
    \E q \in Passes : q # p /\ InstanceOf(q) = InstanceOf(p) /\ pc[q] # "idle"

CheckBootstrapSecret(p) ==
    /\ pc[p] = "idle"
    /\ solrCloud.Spec.SolrSecurity # Nil
    /\ found' = [found EXCEPT
                    ![p] = secrets[SecurityBootstrapSecretName(CloudFor(InstanceOf(p)))] # Nil]
    /\ pc' = [pc EXCEPT ![p] = "checked"]
    /\ overlapped' = [overlapped EXCEPT ![InstanceOf(p)] = @ \/ OtherPassInFlight(p)]
    /\ UNCHANGED <<solrCloud, out, prev, secrets, generated, clock, issued, firstSelector, zkVars>>

\* the check of a pass that starts only when no other pass of its instance runs
SerializedCheckBootstrapSecret(p) ==
    /\ ~OtherPassInFlight(p)
    /\ CheckBootstrapSecret(p)

UseExistingSecrets(p) ==
    /\ pc[p] = "checked"
    /\ found[p]
    /\ pc' = [pc EXCEPT ![p] = "idle"]
    /\ UNCHANGED <<solrCloud, out, prev, secrets, found, generated, clock, issued,
                   overlapped, firstSelector, zkVars>>

\* the clock is read when the call starts and does not advance during it
GenerateSecrets(p) ==
    /\ pc[p] = "checked"
    /\ ~found[p]
    /\ \E t \in clock..MaxClock :
        LET pair == GenerateBasicAuthSecretWithBootstrap(CloudFor(InstanceOf(p)), <<t, t, t>>)
        IN  /\ generated' = [generated EXCEPT ![p] = Some(pair)]
            /\ issued' = [issued EXCEPT ![InstanceOf(p)] = @ \cup {pair}]
            /\ clock' = t
    /\ pc' = [pc EXCEPT ![p] = "generated"]
    /\ UNCHANGED <<solrCloud, out, prev, secrets, found, overlapped, firstSelector, zkVars>>

\* both secrets are written under the names they carry, the basic-auth
\* secret first
PersistSecrets(p) ==
    /\ pc[p] = "generated"
    /\ LET basicAuthSecret == Get(generated[p])[1]
           bootstrapSecret == Get(generated[p])[2]
       IN  secrets' = [n \in SecretNames |->
                        IF n = bootstrapSecret.Name THEN Some(bootstrapSecret)
                        ELSE IF n = basicAuthSecret.Name THEN Some(basicAuthSecret)
                        ELSE secrets[n]]
    /\ generated' = [generated EXCEPT ![p] = Nil]
    /\ pc' = [pc EXCEPT ![p] = "idle"]
    /\ UNCHANGED <<solrCloud, out, prev, found, clock, issued, overlapped, firstSelector, zkVars>>

(***************************************************************************)
(* The pods run their initialization commands against the coordination     *)
(* service: the post-start hook of the Solr container and the command of   *)
(* the setup-zk init container.  A command runs part by part; what a part  *)
(* reads and what it writes are separate steps.                            *)
(***************************************************************************)
podVars == <<solrCloud, out, prev, reconcileVars, clock, firstSelector>>

\* the pod has finished the part it is at: on to the next part, past "; "
Advance(r) ==
    LET next == IF r.at < Len(r.cmd) /\ r.cmd[r.at + 1] = "; " THEN r.at + 2 ELSE r.at + 1
    IN  IF next > Len(r.cmd) THEN IdlePod
        ELSE [r EXCEPT !.at = next, !.sub = ""]

AtPart(pod, part) == setup[pod].at > 0 /\ setup[pod].cmd[setup[pod].at] = part

\* the Solr container of the pod has started: its post-start hook runs
StartPostStart(pod) ==
    /\ setup[pod].at = 0
    /\ createZkConnectionEnvVars(solrCloud, Status).hasChroot
    /\ setup' = [setup EXCEPT ![pod] = [IdlePod EXCEPT !.at = 1, !.cmd = <<ChrootCommand>>]]
    /\ UNCHANGED <<podVars, zk, bootstrap, settled>>

\* the pod is created: setup-zk starts with the SECURITY_JSON of the
\* bootstrap secret as it is now
StartSetupZk(pod) ==
    LET init == generateZKInteractionInitContainer(solrCloud, Status, SecurityConfigInfo)
    IN  /\ setup[pod].at = 0
        /\ init.ok
        /\ setup' = [setup EXCEPT ![pod] =
                        [IdlePod EXCEPT !.at = 1, !.cmd = init.container.Command[3],
                                        !.SECURITY_JSON = bootstrap]]
        /\ UNCHANGED <<podVars, zk, bootstrap, settled>>

\* solr zk ls ${ZK_CHROOT}: succeeds when the chroot exists
LsChroot(pod) ==
    /\ AtPart(pod, ChrootCommand)
    /\ setup[pod].sub = ""
    /\ IF OrElseRuns(zk.chroot)
       THEN /\ setup' = [setup EXCEPT ![pod].sub = "mkroot"]
            /\ UNCHANGED settled
       ELSE /\ setup' = [setup EXCEPT ![pod] = Advance(@)]
            /\ settled' = TRUE
    /\ UNCHANGED <<podVars, zk, bootstrap>>

\* solr zk mkroot ${ZK_CHROOT}
MkrootChroot(pod) ==
    /\ AtPart(pod, ChrootCommand)
    /\ setup[pod].sub = "mkroot"
    /\ zk' = [zk EXCEPT !.chroot = TRUE]
    /\ setup' = [setup EXCEPT ![pod] = Advance(@)]
    /\ settled' = TRUE
    /\ UNCHANGED <<podVars, bootstrap>>

\* the urlScheme cluster property is set; the command is not known to
\* leave the chroot alone
RunSetUrlScheme(pod) ==
    /\ AtPart(pod, SetUrlSchemeClusterPropCmd)
    /\ \E chroot \in {zk.chroot, TRUE} : zk' = [zk EXCEPT !.chroot = chroot]
    /\ setup' = [setup EXCEPT ![pod] = Advance(@)]
    /\ UNCHANGED <<podVars, bootstrap, settled>>

\* ZK_SECURITY_JSON=$(zkcli.sh -cmd get /security.json)
GetSecurityJson(pod) ==
    /\ AtPart(pod, GetSecurityJsonCommand)
    /\ setup' = [setup EXCEPT ![pod] = Advance([@ EXCEPT !.ZK_SECURITY_JSON = zk.security])]
    /\ UNCHANGED <<podVars, zk, bootstrap, settled>>

\* if [ ${#ZK_SECURITY_JSON} -lt 3 ]; then ... putfile /security.json
PutSecurityJson(pod) ==
    /\ AtPart(pod, PutSecurityJsonCommand)
    /\ zk' = IF ShorterThan3(setup[pod].ZK_SECURITY_JSON)
             THEN [zk EXCEPT !.security = setup[pod].SECURITY_JSON]
             ELSE zk
    /\ setup' = [setup EXCEPT ![pod] = Advance(@)]
    /\ UNCHANGED <<podVars, bootstrap, settled>>

\* one command at a time
NoCommandRuns == \A pod \in Pods : setup[pod].at = 0
SequentialStartPostStart(pod) == NoCommandRuns /\ StartPostStart(pod)
SequentialStartSetupZk(pod) == NoCommandRuns /\ StartSetupZk(pod)

\* between two commands the coordination service is changed from outside
ZkChanged ==
    /\ NoCommandRuns
    /\ \E state \in ZkStates :
        /\ state # zk
        /\ zk' = state
    /\ settled' = FALSE
    /\ UNCHANGED <<podVars, bootstrap, setup>>

\* the bootstrap secret is replaced by one with another policy document
ReplaceBootstrapSecret ==
    /\ \E doc \in BootstrapDocs \ {bootstrap} : bootstrap' = doc
    /\ UNCHANGED <<podVars, zk, setup, settled>>

(***************************************************************************)
(* Specifications                                                          *)
(***************************************************************************)
\* the generators under every label and option the user may give
NextLabels ==
    \/ EditLabels
    \/ EditOptions
    \/ GenStatefulSet
    \/ GenConfigMap
    \/ GenCommonService
    \/ GenHeadlessService
    \/ GenNodeService
    \/ GenIngress
    \/ GenBasicAuthSecretWithBootstrap

SpecLabels == Init /\ [][NextLabels]_vars

\* the network objects under every external addressability
NextIngress ==
    \/ EditExternal
    \/ GenIngress
    \/ GenIngressRules
    \/ GenCommonService
    \/ GenHeadlessService

SpecIngress == Init /\ [][NextIngress]_vars

\* repeated generator calls on one SolrCloud, under every list of backup
\* repositories, map iteration order and clock reading
Next ==
    \/ EditBackupRepositories
    \/ GenStatefulSet
    \/ GenConfigMap
    \/ GenCommonService
    \/ GenHeadlessService
    \/ GenNodeService
    \/ GenIngress
    \/ GenBasicAuthSecretWithBootstrap

Spec == Init /\ [][Next]_vars

\* solrPasswordHash on its own, under every password and salt
NextHash == HashPassword

SpecHash == Init /\ [][NextHash]_vars

\* reconcile passes that may overlap
NextReconcile ==
    \E p \in Passes :
        \/ CheckBootstrapSecret(p)
        \/ UseExistingSecrets(p)
        \/ GenerateSecrets(p)
        \/ PersistSecrets(p)

SpecReconcile == Init /\ [][NextReconcile]_vars

\* reconcile passes serialized per instance
NextSerialized ==
    \E p \in Passes :
        \/ SerializedCheckBootstrapSecret(p)
        \/ UseExistingSecrets(p)
        \/ GenerateSecrets(p)
        \/ PersistSecrets(p)

SpecSerialized == Init /\ [][NextSerialized]_vars

\* ValidateBasicAuthSecret under every secret a user may hand in
NextValidate == ValidateSecret

SpecValidate == Init /\ [][NextValidate]_vars

\* the probes of the workload under every TLS, security and probe option
NextProbes ==
    \/ EditTLS
    \/ EditSecurity
    \/ EditProbes
    \/ GenStatefulSet

SpecProbes == Init /\ [][NextProbes]_vars

\* the data storage of the workload under every storage option
NextStorage ==
    \/ EditStorage
    \/ GenStatefulSet

SpecStorage == Init /\ [][NextStorage]_vars

\* the security bootstrap under every security and probe option
NextSecurity ==
    \/ EditSecurity
    \/ EditProbes
    \/ GenBasicAuthSecretWithBootstrap

SpecSecurity == Init /\ [][NextSecurity]_vars

\* the ingress under every TLS option, termination secret and annotation
NextIngressTLS ==
    \/ EditTLS
    \/ EditTerminationSecret
    \/ EditIngressOptions
    \/ GenIngress

SpecIngressTLS == Init /\ [][NextIngressTLS]_vars

\* the statements of GenerateStatefulSet under TLS and the user's lifecycle
\* and security context
NextOrder ==
    \/ EditTLS
    \/ EditLifecycle
    \/ EditPodSecurityContext
    \/ CallGenerateStatefulSet
    \/ StepCustomPodOptions
    \/ StepEnableTLS

SpecOrder == Init /\ [][NextOrder]_vars

\* the initialization commands, one after the other
NextChroot ==
    \/ ZkChanged
    \/ ReplaceBootstrapSecret
    \/ \E pod \in Pods :
        \/ SequentialStartPostStart(pod)
        \/ SequentialStartSetupZk(pod)
        \/ LsChroot(pod)
        \/ MkrootChroot(pod)
        \/ GetSecurityJson(pod)
        \/ PutSecurityJson(pod)

SpecChroot == Init /\ [][NextChroot]_vars

\* the pods of a StatefulSet start in parallel: their setup-zk commands
\* interleave
NextSetupZk ==
    \/ ReplaceBootstrapSecret
    \/ EditTLS
    \/ \E pod \in Pods :
        \/ StartSetupZk(pod)
        \/ LsChroot(pod)
        \/ MkrootChroot(pod)
        \/ RunSetUrlScheme(pod)
        \/ GetSecurityJson(pod)
        \/ PutSecurityJson(pod)

SpecSetupZk == Init /\ [][NextSetupZk]_vars

\* the workload under every custom volume, pod annotation, status and
\* configuration
NextInput ==
    \/ EditVolumes
    \/ EditPodAnnotations
    \/ GenStatefulSetAny

SpecInput == Init /\ [][NextInput]_vars

\* the lifecycle of the Solr container under every status, lifecycle and
\* security context of the user
NextLifecycle ==
    \/ EditLifecycle
    \/ EditPodSecurityContext
    \/ GenStatefulSetAny

SpecLifecycle == Init /\ [][NextLifecycle]_vars

\* the workload under every storage, backup repository, custom volume,
\* security option and log configuration
NextMounts ==
    \/ EditClaimTemplate
    \/ EditBackupRepositories
    \/ EditVolumes
    \/ EditSecurity
    \/ GenStatefulSetLogConfig

SpecMounts == Init /\ [][NextMounts]_vars

\* the workload under every grace period, status and configuration
NextStopWait ==
    \/ EditGracePeriod
    \/ GenStatefulSetAny

SpecStopWait == Init /\ [][NextStopWait]_vars

(***************************************************************************)
(* Properties                                                              *)
(***************************************************************************)
OutIs(kind) == out # Nil /\ Get(out).kind = kind

\* credential is "<hash> <salt>" with exactly one space, the salt part is the
\* base64 of a salt, and the hash part is the base64 of the double SHA-256
\* of that salt followed by the password
Verifies(credential, password) ==
    \E i \in DOMAIN credential :
        /\ credential[i] = 32
        /\ LET hashPart == SubSeq(credential, 1, i - 1)
               saltPart == SubSeq(credential, i + 1, Len(credential))
               salt == Base64Decode(saltPart)
           IN  /\ 32 \notin Range(hashPart) \cup Range(saltPart)
               /\ Base64Encode(salt) = saltPart
               /\ Len(salt) = 32
               /\ hashPart = Base64Encode(Sha256(Sha256(salt \o password)))

\* C10: the credential string solrPasswordHash returns for a password is
\* base64(SHA-256(SHA-256(salt ++ password))), one space, base64(salt): the
\* salt read back from after the space is the salt drawn for the call and
\* the one the hash was computed with, the salt bytes before the password
\* bytes.
C10_CredentialFormat ==
    OutIs("PasswordHash") =>
        LET credential == Get(out).obj
            password == Get(out).args[1]
            rng == Get(out).args[2]
        IN  /\ Verifies(credential, password)
            /\ \E i \in DOMAIN credential :
                    /\ credential[i] = 32
                    /\ Base64Decode(SubSeq(credential, i + 1, Len(credential)))
                         = randomSaltHash(rng)

\* a non-empty password has been hashed
C10_Witness ==
    /\ OutIs("PasswordHash")
    /\ Len(Get(out).args[1]) = 16
    /\ Len(Get(out).obj) = 89

\* the reorderings of a list
Reorderings(l) ==
    {[i \in DOMAIN l |-> l[p[i]]] :
        p \in {q \in [DOMAIN l -> DOMAIN l] : \A i \in DOMAIN l : \E j \in DOMAIN l : q[j] = i}}

\* l lists every element of S exactly once, in strictly increasing order
SortedListOf(l, S) ==
    /\ Range(l) = S
    /\ Len(l) = Cardinality(S)
    /\ \A i \in 1..Len(l) - 1 : StrLess(l[i], l[i + 1])

\* l is a reordering of m in which no element is followed by a smaller one
SortedReorderingOf(l, m) ==
    /\ l \in Reorderings(m)
    /\ \A i \in 1..Len(l) - 1 : ~StrLess(l[i + 1], l[i])

\* the backup section expected for a list of repositories
BackupSectionFor(xml, backupRepos) ==
    IF Len(backupRepos) = 0 THEN xml = <<>>
    ELSE \E frags \in Reorderings([i \in DOMAIN backupRepos |-> RepoXML(backupRepos[i])]) :
            /\ SortedReorderingOf(frags, [i \in DOMAIN backupRepos |-> RepoXML(backupRepos[i])])
            /\ IF RepoLibs(backupRepos) = {}
               THEN xml = BackupOpen \o Join(frags, Newline) \o BackupClose
               ELSE \E libs \in RangeOrders(RepoLibs(backupRepos)) :
                        /\ SortedListOf(libs, RepoLibs(backupRepos))
                        /\ xml = SharedLibOpen \o Join(libs, Comma) \o SharedLibClose
                                 \o BackupOpen \o Join(frags, Newline) \o BackupClose

\* C9: the backup section GenerateBackupRepositoriesForSolrXml returns is
\* the same for every reordering of the repository list and every order in
\* which the library map is visited; it lists every library exactly once in
\* lexicographic order and the repository fragments in lexicographic order;
\* the empty list gives the empty string.
C9_BackupSectionOrderFree ==
    OutIs("ConfigMap") =>
        LET backupRepos == Get(out).solrCloud.Spec.BackupRepositories
            xml == Get(out).obj.Data[SolrXmlFile].BackupSection
        IN  /\ BackupSectionFor(xml, backupRepos)
            /\ \A reordered \in Reorderings(backupRepos) :
                    \A rangeOrder \in RangeOrders(RepoLibs(reordered)) :
                        GenerateBackupRepositoriesForSolrXml(reordered, rangeOrder) = xml

\* a config map was generated for two repositories that are declared in
\* descending order of their fragments and share a library
C9_Witness ==
    /\ OutIs("ConfigMap")
    /\ LET backupRepos == Get(out).solrCloud.Spec.BackupRepositories
       IN  /\ Len(backupRepos) = 2
           /\ StrLess(RepoXML(backupRepos[2]), RepoXML(backupRepos[1]))
           /\ Cardinality(RepoLibs(backupRepos)) = 3

\* the two latest generator calls were of one kind, on the same SolrCloud
\* and the same arguments
SameCallTwice ==
    /\ out # Nil
    /\ prev # Nil
    /\ Get(out).kind = Get(prev).kind
    /\ Get(out).solrCloud = Get(prev).solrCloud
    /\ Get(out).args = Get(prev).args

\* C3 as stated: two invocations on the same inputs return identical
\* artifacts, the secrets included, whatever the clock and the global
\* random source.
C3_RepeatedCallsIdentical ==
    SameCallTwice => Get(out).obj = Get(prev).obj

\* what two generated secrets agree on: all but the drawn passwords and the
\* credentials hashed from them
SecretFrame(pair) ==
    [i \in DOMAIN pair |->
        [Name |-> pair[i].Name, Labels |-> pair[i].Labels,
         Annotations |-> pair[i].Annotations, Type |-> pair[i].Type,
         Keys |-> DOMAIN pair[i].Data]]

\* C3 amended: two invocations on the same inputs return the identical
\* workload, configuration map, services and ingress, whatever the order
\* in which maps are visited; two generated secret pairs agree on names,
\* labels, types, keys, the user name and the authorization section, not
\* on the passwords and credentials drawn from the clock-seeded source.
C3_RepeatedCallsIdenticalButSecrets ==
    SameCallTwice =>
        IF Get(out).kind = "Secrets"
        THEN /\ SecretFrame(Get(out).obj) = SecretFrame(Get(prev).obj)
             /\ Get(out).obj[1].Data[BasicAuthUsernameKey] = Get(prev).obj[1].Data[BasicAuthUsernameKey]
             /\ Get(out).obj[2].Data[SecurityJsonFile].authorization
                  = Get(prev).obj[2].Data[SecurityJsonFile].authorization
        ELSE Get(out).obj = Get(prev).obj

\* the StatefulSet was generated twice for a host map of two names
C3_Witness ==
    /\ SameCallTwice
    /\ Get(out).kind = "StatefulSet"
    /\ Len(Get(out).obj.Spec.Template.Spec.HostAliases) = 2

\* the rules and hosts expected for a SolrCloud, its pods and its domains:
\* the common rules first, one per domain, then the rules of each pod in
\* turn, one per domain
ExpectedRules(sc, nodeNames, domainNames, r) ==
    LET ext == Get(sc.Spec.SolrAddressability.External)
        N == Len(domainNames)
        M == Len(nodeNames)
        commonCount == IF ext.HideCommon THEN 0 ELSE N
        nodeCount == IF ext.HideNodes THEN 0 ELSE N * M
    IN  /\ Len(r.ingressRules) = commonCount + nodeCount
        /\ Len(r.allHosts) = commonCount + nodeCount
        /\ \A i \in 1..(commonCount + nodeCount) : r.allHosts[i] = r.ingressRules[i].Host
        /\ \A d \in 1..commonCount :
                /\ r.ingressRules[d].Host = ExternalCommonUrl(sc, domainNames[d])
                /\ r.ingressRules[d].Service.Name = CommonServiceName(sc)
                /\ r.ingressRules[d].Service.Port = sc.Spec.SolrAddressability.CommonServicePort
        /\ nodeCount > 0 =>
                \A n \in 1..M : \A d \in 1..N :
                    LET rule == r.ingressRules[commonCount + (n - 1) * N + d]
                    IN  /\ rule.Host = ExternalNodeUrl(sc, nodeNames[n], domainNames[d])
                        /\ rule.Service.Name = nodeNames[n]
                        /\ rule.Service.Port = NodePort(sc)

\* C7: for N domains and M pods CreateSolrIngressRules returns, with
\* nothing hidden, N + N*M rules and as many hosts in the same order: one
\* common rule per domain on the common service and its port, then for
\* each pod one rule per domain on the service named after the pod and the
\* node port; hiding common takes the N common rules away, hiding nodes
\* the N*M rules of the pods.  The ingress carries these rules for the
\* primary domain followed by the additional domains.
C7_IngressRules ==
    /\ OutIs("IngressRules") =>
            ExpectedRules(Get(out).solrCloud, Get(out).args[1], Get(out).args[2], Get(out).obj)
    /\ OutIs("Ingress") =>
            LET sc == Get(out).solrCloud
                ext == Get(sc.Spec.SolrAddressability.External)
                rules == Get(Get(out).obj).Spec.Rules
            IN  ExpectedRules(sc, Get(out).args[1],
                              <<ext.DomainName>> \o ext.AdditionalDomainNames,
                              [ingressRules |-> rules,
                               allHosts |-> [i \in DOMAIN rules |-> rules[i].Host]])

\* the rules of two pods on two domains, nothing hidden: six rules
C7_Witness ==
    /\ OutIs("IngressRules")
    /\ Len(Get(out).args[1]) = 2
    /\ Len(Get(out).args[2]) = 2
    /\ Get(out).args[2][1] # Get(out).args[2][2]
    /\ ~Get(Get(out).solrCloud.Spec.SolrAddressability.External).HideCommon
    /\ ~Get(Get(out).solrCloud.Spec.SolrAddressability.External).HideNodes
    /\ Len(Get(out).obj.ingressRules) = 6

\* no domain is configured: the primary domain name is empty and there is
\* no additional domain name
ZeroDomains(sc) ==
    /\ sc.Spec.SolrAddressability.External # Nil
    /\ Get(sc.Spec.SolrAddressability.External).DomainName = ""
    /\ Get(sc.Spec.SolrAddressability.External).AdditionalDomainNames = <<>>

\* C8: with external exposure requested and no domain configured,
\* GenerateIngress produces no ingress object, so no rule and no TLS host
\* entry for an empty domain.
C8_ZeroDomainsFailClosed ==
    (OutIs("Ingress") /\ ZeroDomains(Get(out).solrCloud)) => Get(out).obj = Nil

\* the objects of the latest generator call, each with the custom options
\* of its kind: <<metadata of the object, options block>>
GeneratedObjects ==
    LET o == Get(out)
        options == o.solrCloud.Spec.CustomSolrKubeOptions
    IN  IF o.kind = "StatefulSet"
        THEN {<<[Labels |-> o.obj.Labels, Annotations |-> o.obj.Annotations],
                options.StatefulSetOptions>>,
              <<[Labels |-> o.obj.Spec.Template.Labels,
                 Annotations |-> o.obj.Spec.Template.Annotations],
                options.PodOptions>>}
        ELSE IF o.kind = "ConfigMap"
        THEN {<<[Labels |-> o.obj.Labels, Annotations |-> o.obj.Annotations],
                options.ConfigMapOptions>>}
        ELSE IF o.kind = "CommonService"
        THEN {<<[Labels |-> o.obj.Labels, Annotations |-> o.obj.Annotations],
                options.CommonServiceOptions>>}
        ELSE IF o.kind = "HeadlessService"
        THEN {<<[Labels |-> o.obj.Labels, Annotations |-> o.obj.Annotations],
                options.HeadlessServiceOptions>>}
        ELSE IF o.kind = "NodeService"
        THEN {<<[Labels |-> o.obj.Labels, Annotations |-> o.obj.Annotations],
                options.NodeServiceOptions>>}
        ELSE IF o.kind = "Ingress"
        THEN {<<[Labels |-> Get(o.obj).Labels, Annotations |-> Get(o.obj).Annotations],
                options.IngressOptions>>}
        ELSE IF o.kind = "Secrets"
        THEN {<<[Labels |-> o.obj[i].Labels, Annotations |-> o.obj[i].Annotations], Nil>> :
                 i \in DOMAIN o.obj}
        ELSE {}

ReservedKeys == {TechnologyLabelKey, InstanceLabelKey}

\* C4: every generated object (the StatefulSet, its pod template, the
\* config map, the three services, the ingress, both secrets) carries the
\* technology label and the identity label of the instance with their
\* internal values, whatever labels the user gives.
C4_InternalLabelsOnEveryObject ==
    out # Nil =>
        \A g \in GeneratedObjects :
            /\ TechnologyLabelKey \in DOMAIN g[1].Labels
            /\ g[1].Labels[TechnologyLabelKey] = SolrTechnologyLabel
            /\ InstanceLabelKey \in DOMAIN g[1].Labels
            /\ g[1].Labels[InstanceLabelKey] = Get(out).solrCloud.Name

C6_SelectorDependsOnIdentityOnly ==
    OutIs("StatefulSet") =>
        LET selector == Get(out).obj.Spec.Selector.MatchLabels
        IN  /\ firstSelector # Nil
            /\ selector = Get(firstSelector)
            /\ DOMAIN selector = {InstanceLabelKey, TechnologyLabelKey}
            /\ selector[InstanceLabelKey] = Get(out).solrCloud.Name
            /\ selector[TechnologyLabelKey] = SolrTechnologyLabel

\* a StatefulSet generated from a SolrCloud with labels and StatefulSet
\* options of the user that reuse the reserved keys: its labels differ from
\* its selector
C6_Witness ==
    /\ OutIs("StatefulSet")
    /\ InstanceLabelKey \in DOMAIN Get(out).solrCloud.Labels
    /\ Get(out).solrCloud.Spec.CustomSolrKubeOptions.StatefulSetOptions # Nil
    /\ Get(out).solrCloud.Spec.CustomSolrKubeOptions.PodOptions # Nil
    /\ Get(out).obj.Labels # Get(out).obj.Spec.Selector.MatchLabels

BasicAuthSecretOf(i) == secrets[BasicAuthSecretName(CloudFor(i))]
BootstrapSecretOf(i) == secrets[SecurityBootstrapSecretName(CloudFor(i))]

\* one step of the passes of instance i: stored credentials stay as they
\* are, a pass that has generated stores both secrets it generated, and no
\* second credential set is generated
GeneratedOnceStep(i) ==
    /\ BootstrapSecretOf(i) # Nil =>
            /\ BootstrapSecretOf(i)' = BootstrapSecretOf(i)
            /\ BasicAuthSecretOf(i)' = BasicAuthSecretOf(i)
            /\ issued'[i] = issued[i]
    /\ \A p \in Passes :
            (InstanceOf(p) = i /\ pc[p] = "generated" /\ pc'[p] = "idle") =>
                /\ BasicAuthSecretOf(i)' = Some(Get(generated[p])[1])
                /\ BootstrapSecretOf(i)' = Some(Get(generated[p])[2])
    /\ \A p \in Passes :
            (InstanceOf(p) = i /\ pc[p] = "checked" /\ pc'[p] = "generated") =>
                /\ BootstrapSecretOf(i) = Nil
                /\ issued[i] = {}
                /\ Cardinality(issued'[i]) = 1
    /\ Cardinality(issued'[i]) <= 1

\* C1: over the passes of one instance, run one after the other, the
\* bootstrap credentials are generated exactly once: a pass that finds no
\* bootstrap secret generates one credential set and stores it, and once
\* the bootstrap secret is stored no later pass changes it or the
\* basic-auth secret, or generates another set.
C1_CredentialsGeneratedOnce == [][\A i \in Instances : GeneratedOnceStep(i)]_vars

\* a later pass of the example instance has found the stored bootstrap secret
C1_Witness ==
    /\ BootstrapSecretOf(ExampleName) # Nil
    /\ BasicAuthSecretOf(ExampleName) # Nil
    /\ \E p \in Passes : InstanceOf(p) = ExampleName /\ pc[p] = "checked" /\ found[p]
    /\ Cardinality(issued[ExampleName]) = 1

\* C2: an instance for which two different credential sets have been
\* generated has had a pass check for the bootstrap secret while another of
\* its passes was between its own check and its write; without such an
\* overlap at most one set is issued.  The passes of the other instance do
\* not matter: the secrets stored for an instance are secrets generated
\* for it, under its names and its identity label.
C2_TwoSetsOnlyWhenOverlapped ==
    \A i \in Instances :
        /\ Cardinality(issued[i]) > 1 => overlapped[i]
        /\ \A pair \in issued[i] :
                /\ pair[1].Name = BasicAuthSecretName(CloudFor(i))
                /\ pair[2].Name = SecurityBootstrapSecretName(CloudFor(i))
                /\ pair[1].Labels[InstanceLabelKey] = i
                /\ pair[2].Labels[InstanceLabelKey] = i
        /\ BasicAuthSecretOf(i) # Nil =>
                \E pair \in issued[i] : BasicAuthSecretOf(i) = Some(pair[1])
        /\ BootstrapSecretOf(i) # Nil =>
                \E pair \in issued[i] : BootstrapSecretOf(i) = Some(pair[2])

\* two overlapping passes of the example instance have generated two
\* different credential sets, while the other instance has its own
C2_Witness ==
    /\ Cardinality(issued[ExampleName]) = 2
    /\ overlapped[ExampleName]
    /\ Cardinality(issued[OtherName]) = 1
    /\ BootstrapSecretOf(OtherName) # Nil
    /\ BootstrapSecretOf(ExampleName) # Nil

(***************************************************************************)
(* C11: ValidateBasicAuthSecret returns an error exactly when the secret   *)
(* is not of the basic-auth type, or has no username key, or has no        *)
(* password key, and returns no error otherwise; it leaves the secret as   *)
(* it was handed in.                                                       *)
(***************************************************************************)
C11_ValidateExactlyWhenMalformed ==
    OutIs("Validate") =>
        LET given == Get(out).args[1]
            result == Get(out).obj
        IN  /\ (result.err # Nil) <=>
                    \/ given.Type # SecretTypeBasicAuth
                    \/ BasicAuthUsernameKey \notin DOMAIN given.Data
                    \/ BasicAuthPasswordKey \notin DOMAIN given.Data
            /\ result.basicAuthSecret = given

\* a basic-auth secret with a username and no password has been refused
C11_Witness ==
    /\ OutIs("Validate")
    /\ Get(out).args[1].Type = SecretTypeBasicAuth
    /\ DOMAIN Get(out).args[1].Data = {BasicAuthUsernameKey, "token"}
    /\ Get(out).obj.err # Nil

(***************************************************************************)
(* Probes of the Solr container                                            *)
(***************************************************************************)
\* byte string p occurs in byte string s
Contains(s, p) == \E i \in 0..(Len(s) - Len(p)) : SubSeq(s, i + 1, i + Len(p)) = p

SolrContainerOf(stateful) == stateful.Spec.Template.Spec.Containers[1]

\* the user set none of the three probes
NoCustomProbes(sc) ==
    LET podOptions == sc.Spec.CustomSolrKubeOptions.PodOptions
    IN  podOptions # Nil =>
            /\ Get(podOptions).ReadinessProbe = Nil
            /\ Get(podOptions).LivenessProbe = Nil
            /\ Get(podOptions).StartupProbe = Nil

\* spec.solrTLS asks callers for a certificate
ClientAuthAsked(sc) == sc.Spec.SolrTLS # Nil /\ Get(sc.Spec.SolrTLS).ClientAuth # "None"

IsCommandProbe(probe) ==
    probe.Exec # Nil /\ probe.HTTPGet = Nil /\ probe.TimeoutSeconds = 5

IsDefaultHTTPProbe(probe) ==
    /\ probe.Exec = Nil /\ probe.HTTPGet # Nil /\ probe.TimeoutSeconds = 1
    /\ Get(probe.HTTPGet).Path = SolrPrefix \o DefaultProbePath

\* the byte strings a probe definition holds: the path of its HTTP-GET
\* handler, the URL path in the command the operator builds
ProbeTexts(probe) ==
    (IF probe.HTTPGet # Nil THEN {Get(probe.HTTPGet).Path} ELSE {})
    \cup (IF probe.Exec # Nil /\ Len(Get(probe.Exec).Command) = 3
          THEN {Get(probe.Exec).Command[3].path} ELSE {})

ProbesOf(container) ==
    {container.LivenessProbe, container.ReadinessProbe}
    \cup (IF container.StartupProbe # Nil THEN {Get(container.StartupProbe)} ELSE {})

DefaultProbesSwitch(sc, container) ==
    IF ClientAuthAsked(sc) \/ ProbesRequireAuth(sc)
    THEN IsCommandProbe(container.LivenessProbe) /\ IsCommandProbe(container.ReadinessProbe)
    ELSE IsDefaultHTTPProbe(container.LivenessProbe) /\ IsDefaultHTTPProbe(container.ReadinessProbe)

VolumesOf(stateful) == stateful.Spec.Template.Spec.Volumes

DataVolumes(stateful) ==
    {i \in DOMAIN VolumesOf(stateful) : VolumesOf(stateful)[i].Name = solrDataVolumeName}

\* the fields of a volume source that are set
SourcesOf(volume) == {f \in DOMAIN volume.VolumeSource : volume.VolumeSource[f] # Nil}

(***************************************************************************)
(* C13: in ephemeral storage mode the data volume has exactly one volume   *)
(* source: the host path only when a host path is given and no empty       *)
(* directory is given; the user's empty directory, with its size limit,    *)
(* whenever an empty directory is given, a host path being given or not;   *)
(* an unconstrained empty directory when neither is given or there is no   *)
(* ephemeral block.                                                        *)
(***************************************************************************)
C13_EphemeralSourceChoice ==
    (OutIs("StatefulSet") /\ ~UsesPersistentStorage(Get(out).solrCloud)) =>
        LET ephemeralStorage == Get(out).solrCloud.Spec.StorageOptions.EphemeralStorage
            hostPath == IF ephemeralStorage = Nil THEN Nil ELSE Get(ephemeralStorage).HostPath
            emptyDir == IF ephemeralStorage = Nil THEN Nil ELSE Get(ephemeralStorage).EmptyDir
        IN  /\ Cardinality(DataVolumes(Get(out).obj)) = 1
            /\ \A i \in DataVolumes(Get(out).obj) :
                LET volume == VolumesOf(Get(out).obj)[i]
                IN  /\ Cardinality(SourcesOf(volume)) = 1
                    /\ IF emptyDir # Nil
                       THEN volume.VolumeSource.EmptyDir = emptyDir
                       ELSE IF hostPath # Nil
                       THEN volume.VolumeSource.HostPath = hostPath
                       ELSE volume.VolumeSource.EmptyDir = Some([SizeLimit |-> ""])

ClaimTemplateOf(sc) == Get(sc.Spec.StorageOptions.PersistentStorage).PersistentVolumeClaimTemplate

(***************************************************************************)
(* C14: in persistent storage mode the workload has exactly one            *)
(* volume-claim template and no pod volume for the data; the template is   *)
(* named "data", has the access modes [ReadWriteOnce] and the volume mode  *)
(* Filesystem where the user gave none, and keeps the name, access modes   *)
(* and volume mode the user gave.                                          *)
(***************************************************************************)
C14_PersistentClaimDefaults ==
    (OutIs("StatefulSet") /\ UsesPersistentStorage(Get(out).solrCloud)) =>
        LET given == ClaimTemplateOf(Get(out).solrCloud)
            pvcs == Get(out).obj.Spec.VolumeClaimTemplates
        IN  /\ Len(pvcs) = 1
            /\ DataVolumes(Get(out).obj) = {}
            /\ pvcs[1].ObjectMeta.Name =
                    IF given.ObjectMeta.Name = "" THEN "data" ELSE given.ObjectMeta.Name
            /\ pvcs[1].Spec.AccessModes =
                    IF given.Spec.AccessModes = <<>> THEN <<"ReadWriteOnce">>
                    ELSE given.Spec.AccessModes
            /\ pvcs[1].Spec.VolumeMode =
                    IF given.Spec.VolumeMode = Nil THEN Some("Filesystem")
                    ELSE given.Spec.VolumeMode

\* a workload was generated from a claim template without name, access
\* modes and volume mode
C14_Witness ==
    /\ OutIs("StatefulSet")
    /\ UsesPersistentStorage(Get(out).solrCloud)
    /\ ClaimTemplateOf(Get(out).solrCloud).ObjectMeta.Name = ""
    /\ ClaimTemplateOf(Get(out).solrCloud).Spec = [AccessModes |-> <<>>, VolumeMode |-> Nil]
    /\ Get(out).obj.Spec.VolumeClaimTemplates[1].ObjectMeta.Name = "data"

InternalStorageLabels(sc) ==
    (SolrPVCTechnologyLabel :> "solr-cloud") @@ (SolrPVCStorageLabel :> "data")
    @@ (SolrPVCInstanceLabel :> sc.Name)

PasswordsOf(pair) ==
    <<pair[2].Data["admin"], pair[1].Data[BasicAuthPasswordKey], pair[2].Data["solr"]>>

WellFormedPassword(pass) ==
    /\ Len(pass) = 16
    /\ pass[1] \in Range(lower)
    /\ pass[16] \in Range(upper)
    /\ \A i \in 2..15 : pass[i] \in Range(chars)

\* the password randomPassword draws at every reading of the clock
DrawAt == [t \in 1..MaxClock |-> randomPassword(t).pass]

(***************************************************************************)
(* C16: every password randomPassword returns has 16 characters, the       *)
(* first a lowercase letter of the fixed set, the last an uppercase letter *)
(* of the fixed set, the 14 between from the alphabet; each of the three   *)
(* accounts has the password of a call of its own, with the permutation    *)
(* of that call: the calls read the clock one after the other, the third   *)
(* one last.                                                               *)
(***************************************************************************)
C16_PasswordShapeAndOwnDraw ==
    OutIs("Secrets") =>
        LET passwords == PasswordsOf(Get(out).obj)
        IN  /\ \A i \in 1..3 : WellFormedPassword(passwords[i])
            /\ \E t1 \in 1..clock : \E t2 \in t1..clock :
                /\ passwords[1] = DrawAt[t1]
                /\ passwords[2] = DrawAt[t2]
                /\ passwords[3] = DrawAt[clock]

\* the secrets were generated while the clock moved on: the first and the
\* last account have different passwords
C16_Witness ==
    /\ OutIs("Secrets")
    /\ PasswordsOf(Get(out).obj)[1] # PasswordsOf(Get(out).obj)[3]
    /\ PasswordsOf(Get(out).obj)[1] = DrawAt[1]

\* password is the password the policy document lists user for: the two
\* come from one draw
PasswordOfUser(pair, user, password) ==
    \E t \in 1..MaxClock :
        /\ UserAt[t].password = password
        /\ UserAt[t].credential = pair[2].Data[SecurityJsonFile].authentication.credentials[user]

(***************************************************************************)
(* C17: GenerateBasicAuthSecretWithBootstrap returns two secrets that      *)
(* share no credential: the basic-auth secret holds the user name and the  *)
(* password of the default client account and nothing else, the bootstrap  *)
(* secret holds exactly the password of the administrator, the password    *)
(* of the solr account and the policy document.                            *)
(***************************************************************************)
C17_SecretsHoldSeparateAccounts ==
    OutIs("Secrets") =>
        LET pair == Get(out).obj
        IN  /\ DOMAIN pair[1].Data = {"username", "password"}
            /\ pair[1].Data["username"] = "k8s-oper"
            /\ PasswordOfUser(pair, "k8s-oper", pair[1].Data["password"])
            /\ DOMAIN pair[2].Data = {"admin", "solr", "security.json"}
            /\ PasswordOfUser(pair, "admin", pair[2].Data["admin"])
            /\ PasswordOfUser(pair, "solr", pair[2].Data["solr"])
            /\ DOMAIN pair[2].Data["security.json"] = {"authentication", "authorization"}
            /\ DOMAIN pair[1].Data \cap DOMAIN pair[2].Data = {}

\* the two secrets were generated, the client account's password differing
\* from the administrator's and from the solr account's
C17_Witness ==
    /\ OutIs("Secrets")
    /\ Get(out).obj[1].Data["password"] # Get(out).obj[2].Data["admin"]
    /\ Get(out).obj[1].Data["password"] # Get(out).obj[2].Data["solr"]

\* the paths of the probes a user has set, as the policy document writes
\* paths: without the /solr prefix; the default path comes first, then the
\* HTTP paths of the readiness, liveness and startup probe
EndpointPath(p) ==
    IF Len(p) >= 5 /\ SubSeq(p, 1, 5) = <<47, 115, 111, 108, 114>> THEN SubSeq(p, 6, Len(p)) ELSE p

DeclaredProbePaths(sc) ==
    LET podOptions == sc.Spec.CustomSolrKubeOptions.PodOptions
        httpPath(probe) == IF probe # Nil /\ Get(probe).HTTPGet # Nil
                           THEN <<EndpointPath(Get(Get(probe).HTTPGet).Path)>> ELSE <<>>
    IN  <<EndpointPath(DefaultProbePath)>>
        \o (IF podOptions = Nil THEN <<>>
            ELSE httpPath(Get(podOptions).ReadinessProbe)
                 \o httpPath(Get(podOptions).LivenessProbe)
                 \o httpPath(Get(podOptions).StartupProbe))

FirstAt(paths, p) == CHOOSE i \in DOMAIN paths : paths[i] = p /\ \A j \in 1..(i - 1) : paths[j] # p

PolicyOf(pair) == pair[2].Data["security.json"]

(***************************************************************************)
(* C18: the policy document has exactly one probe permission per distinct  *)
(* health-check path: the default path first, then the HTTP paths of the   *)
(* custom readiness, liveness and startup probes in that order, every path *)
(* once, at its first place, so that no two probe permissions have the     *)
(* same path; with probes requiring authentication every probe permission  *)
(* has the role "k8s" and blockUnknown is true, otherwise every probe      *)
(* permission has the role null and blockUnknown is false.                 *)
(***************************************************************************)
C18_OneProbePermissionPerPath ==
    OutIs("Secrets") =>
        LET sc == Get(out).solrCloud
            declared == DeclaredProbePaths(sc)
            policy == PolicyOf(Get(out).obj)
            entries == policy.authorization.probePermissions
            requireAuth == Get(sc.Spec.SolrSecurity).ProbesRequireAuth
        IN  /\ \A i, j \in DOMAIN entries : i # j => entries[i].path # entries[j].path
            /\ {entries[i].path : i \in DOMAIN entries} = Range(declared)
            /\ \A i, j \in DOMAIN entries :
                i < j => FirstAt(declared, entries[i].path) < FirstAt(declared, entries[j].path)
            /\ \A i \in DOMAIN entries : entries[i].role = IF requireAuth THEN "k8s" ELSE "null"
            /\ policy.authentication.blockUnknown = requireAuth

(***************************************************************************)
(* Annotations of the ingress                                              *)
(***************************************************************************)
UserIngressAnnotations(sc) ==
    IF sc.Spec.CustomSolrKubeOptions.IngressOptions = Nil THEN <<>>
    ELSE Get(sc.Spec.CustomSolrKubeOptions.IngressOptions).Annotations

IngressOf(o) == Get(Get(o).obj)

(***************************************************************************)
(* C19: the backend-protocol annotation of the generated ingress is HTTPS  *)
(* when the SolrCloud has a TLS configuration and HTTP when it has none,   *)
(* unless the user's ingress annotations have that key: then the value is  *)
(* the user's.                                                             *)
(***************************************************************************)
C19_BackendProtocolUnlessUserSet ==
    OutIs("Ingress") =>
        LET sc == Get(out).solrCloud
            user == UserIngressAnnotations(sc)
            key == "nginx.ingress.kubernetes.io/backend-protocol"
            annotations == IngressOf(out).Annotations
        IN  /\ key \in DOMAIN annotations
            /\ annotations[key] = IF key \in DOMAIN user THEN user[key]
                                  ELSE IF sc.Spec.SolrTLS # Nil THEN "HTTPS" ELSE "HTTP"

\* an ingress was generated for a cloud with TLS whose user set the
\* backend protocol
C19_Witness ==
    /\ OutIs("Ingress")
    /\ Get(out).solrCloud.Spec.SolrTLS # Nil
    /\ "nginx.ingress.kubernetes.io/backend-protocol" \in DOMAIN UserIngressAnnotations(Get(out).solrCloud)
    /\ IngressOf(out).Annotations["nginx.ingress.kubernetes.io/backend-protocol"] = "user"

(***************************************************************************)
(* C20: the generated ingress has a TLS entry for the keystore secret of   *)
(* the TLS configuration and one for the TLS termination secret, where     *)
(* given; with at least one TLS entry and no ssl-redirect annotation of    *)
(* the user the ssl-redirect annotation is "true"; an ssl-redirect         *)
(* annotation of the user keeps its value; with no TLS entry the operator  *)
(* adds no ssl-redirect annotation.                                        *)
(***************************************************************************)
C20_SslRedirectWhenFrontedByTLS ==
    OutIs("Ingress") =>
        LET sc == Get(out).solrCloud
            user == UserIngressAnnotations(sc)
            key == "nginx.ingress.kubernetes.io/ssl-redirect"
            annotations == IngressOf(out).Annotations
            keystore == sc.Spec.SolrTLS # Nil /\ Get(sc.Spec.SolrTLS).PKCS12Secret # Nil
            termination == Get(sc.Spec.SolrAddressability.External).IngressTLSTerminationSecret # ""
            entries == IngressOf(out).Spec.TLS
        IN  /\ Len(entries) = (IF keystore THEN 1 ELSE 0) + (IF termination THEN 1 ELSE 0)
            /\ IF key \in DOMAIN user
               THEN key \in DOMAIN annotations /\ annotations[key] = user[key]
               ELSE IF Len(entries) > 0
               THEN key \in DOMAIN annotations /\ annotations[key] = "true"
               ELSE key \notin DOMAIN annotations

\* an ingress was generated with the keystore secret as its only TLS
\* entry, the user having set no ssl-redirect annotation
C20_Witness ==
    /\ OutIs("Ingress")
    /\ Len(IngressOf(out).Spec.TLS) = 1
    /\ IngressOf(out).Spec.TLS[1].SecretName = "keystore-secret"
    /\ "nginx.ingress.kubernetes.io/ssl-redirect" \notin DOMAIN UserIngressAnnotations(Get(out).solrCloud)
    /\ IngressOf(out).Annotations["nginx.ingress.kubernetes.io/ssl-redirect"] = "true"

(***************************************************************************)
(* External-DNS host names of the services                                 *)
(***************************************************************************)
\* the domains of the external addressability, as declared
DeclaredDomains(extOpts) == <<extOpts.DomainName>> \o extOpts.AdditionalDomainNames

\* the host names of the first k declared domains, separated by commas
RECURSIVE HostNamesUpTo(_, _, _)
HostNamesUpTo(sc, domains, k) ==
    IF k = 1 THEN ExternalDnsDomain(sc, domains[1])
    ELSE HostNamesUpTo(sc, domains, k - 1) \o "," \o ExternalDnsDomain(sc, domains[k])

UserAnnotationsOf(options) == IF options = Nil THEN <<>> ELSE Get(options).Annotations

\* the annotation is the engine's: the user's annotations have no such key
EngineHostnames(service, options) ==
    IF ExternalDnsHostnameAnnotation \in DOMAIN UserAnnotationsOf(options) THEN Nil
    ELSE IF ExternalDnsHostnameAnnotation \in DOMAIN service.Annotations
         THEN Some(service.Annotations[ExternalDnsHostnameAnnotation])
         ELSE Nil

(***************************************************************************)
(* C21: under external DNS with a primary domain and K additional domains, *)
(* common access hidden and nodes not hidden, the headless service's       *)
(* external-DNS hostname annotation lists K+1 host names, one per domain   *)
(* in the order declared, and the common service has no such annotation of *)
(* the engine; with nodes hidden the headless service has none either.     *)
(***************************************************************************)
C21_ExternalDnsHostnames ==
    LET sc == Get(out).solrCloud
        ext == sc.Spec.SolrAddressability.External
        domains == DeclaredDomains(Get(ext))
        K == Len(Get(ext).AdditionalDomainNames)
    IN  /\ (OutIs("HeadlessService") /\ ext # Nil /\ Get(ext).Method = ExternalDNS
                /\ Get(ext).HideCommon /\ ~Get(ext).HideNodes) =>
            /\ Len(domains) = K + 1
            /\ EngineHostnames(Get(out).obj, sc.Spec.CustomSolrKubeOptions.HeadlessServiceOptions)
                    = Some(HostNamesUpTo(sc, domains, K + 1))
        /\ (OutIs("CommonService") /\ ext # Nil /\ Get(ext).Method = ExternalDNS
                /\ Get(ext).HideCommon) =>
            EngineHostnames(Get(out).obj, sc.Spec.CustomSolrKubeOptions.CommonServiceOptions) = Nil
        /\ (OutIs("HeadlessService") /\ ext # Nil /\ Get(ext).Method = ExternalDNS
                /\ Get(ext).HideNodes) =>
            EngineHostnames(Get(out).obj, sc.Spec.CustomSolrKubeOptions.HeadlessServiceOptions) = Nil

\* a headless service was generated under external DNS on two domains with
\* common access hidden and the nodes shown
C21_Witness ==
    /\ OutIs("HeadlessService")
    /\ Get(out).solrCloud.Spec.SolrAddressability.External # Nil
    /\ LET ext == Get(Get(out).solrCloud.Spec.SolrAddressability.External)
       IN  /\ ext.Method = ExternalDNS
           /\ ext.HideCommon
           /\ ~ext.HideNodes
           /\ ext.DomainName = "a.test"
           /\ ext.AdditionalDomainNames = <<"b.test">>
           /\ Get(out).obj.Annotations[ExternalDnsHostnameAnnotation] = "default.a.test,default.b.test"

(***************************************************************************)
(* Initialization commands against the coordination service                *)
(***************************************************************************)
\* the step is one of the pod's command
Steps(pod) == setup'[pod] # setup[pod]

\* the pod attempts to create the chroot
AttemptsMkroot(pod) == AtPart(pod, ChrootCommand) /\ setup[pod].sub = "mkroot" /\ Steps(pod)

\* the pod's chroot command ends with this step
EndsChrootCommand(pod) ==
    /\ AtPart(pod, ChrootCommand)
    /\ Steps(pod)
    /\ ~(setup'[pod].at = setup[pod].at /\ setup'[pod].cmd = setup[pod].cmd)

(***************************************************************************)
(* C22: the chroot command (look the chroot up, create it only when the    *)
(* lookup fails), run one or more times in sequence from any state of the  *)
(* coordination service, leaves the chroot existing, never attempts to     *)
(* create a chroot that exists, and a run after a completed run changes    *)
(* nothing in the coordination service.                                    *)
(***************************************************************************)
C22_ChrootCommandIdempotent ==
    [][\A pod \in Pods :
        /\ EndsChrootCommand(pod) => zk'.chroot
        /\ AttemptsMkroot(pod) => ~zk.chroot
        /\ (settled /\ AtPart(pod, ChrootCommand) /\ Steps(pod)) => zk' = zk]_vars

\* a chroot command runs after an earlier one has completed, the
\* coordination service unchanged in between
C22_Witness ==
    /\ settled
    /\ zk.chroot
    /\ \E pod \in Pods : AtPart(pod, ChrootCommand)

(***************************************************************************)
(* C23: a generator leaves the SolrCloud object it is handed as it was:    *)
(* after GenerateStatefulSet every field of the object, the custom volumes *)
(* of the pod and their default container mounts included, has the value   *)
(* it had before the call.                                                 *)
(***************************************************************************)
C23_InputUnchanged ==
    OutIs("StatefulSet") => solrCloud = Get(out).solrCloud

(***************************************************************************)
(* Order of the statements of GenerateStatefulSet                          *)
(***************************************************************************)
\* the place of a statement among the statements the call has run, 0 when
\* it has not run
PlaceOf(steps, step) ==
    IF \E i \in DOMAIN steps : steps[i] = step
    THEN CHOOSE i \in DOMAIN steps : steps[i] = step
    ELSE 0

Returned == OutIs("StatefulSet") /\ "steps" \in DOMAIN Get(out)

\* the values of the user are in the workload: security context,
\* lifecycle, and the handler of every probe the user gives one for
UserValuesStand(podOptions, stateful) ==
    LET solrContainer == stateful.Spec.Template.Spec.Containers[1]
        stands(custom, probe) ==
            (custom # Nil /\ (Get(custom).HTTPGet # Nil \/ Get(custom).Exec # Nil)) =>
                /\ probe.HTTPGet = Get(custom).HTTPGet
                /\ probe.Exec = Get(custom).Exec
    IN  /\ podOptions.PodSecurityContext # Nil =>
            stateful.Spec.Template.Spec.SecurityContext = podOptions.PodSecurityContext
        /\ podOptions.Lifecycle # Nil => solrContainer.Lifecycle = podOptions.Lifecycle
        /\ stands(podOptions.LivenessProbe, solrContainer.LivenessProbe)
        /\ stands(podOptions.ReadinessProbe, solrContainer.ReadinessProbe)
        /\ podOptions.StartupProbe # Nil =>
            /\ solrContainer.StartupProbe # Nil
            /\ stands(podOptions.StartupProbe, Get(solrContainer.StartupProbe))

(***************************************************************************)
(* C24: GenerateStatefulSet assembles the workload, then enables TLS, then *)
(* applies the pod options of the user, so that the security context, the  *)
(* lifecycle and the probes of the returned workload are the user's where  *)
(* the user gives them.                                                    *)
(***************************************************************************)
C24_UserOverridesLast ==
    Returned =>
        LET call == Get(out)
            podOptions == call.solrCloud.Spec.CustomSolrKubeOptions.PodOptions
        IN  /\ call.steps[1] = "assemble"
            /\ (call.tls # Nil /\ podOptions # Nil) =>
                /\ PlaceOf(call.steps, "enableTLS") = 2
                /\ PlaceOf(call.steps, "customPodOptions") = 3
            /\ podOptions # Nil => UserValuesStand(Get(podOptions), call.obj)

(***************************************************************************)
(* Post-start hook of the Solr container                                   *)
(***************************************************************************)
UserLifecycle(sc) ==
    IF sc.Spec.CustomSolrKubeOptions.PodOptions = Nil THEN Nil
    ELSE Get(sc.Spec.CustomSolrKubeOptions.PodOptions).Lifecycle

\* the post-start hook is the command that creates the chroot
IsChrootPostStart(postStart) ==
    /\ postStart # Nil
    /\ Get(postStart).Exec.Command = <<"sh", "-c", <<ChrootCommand>>>>

PostStartOf(stateful) == Get(SolrContainerOf(stateful).Lifecycle).PostStart

(***************************************************************************)
(* C25 as stated: when the chroot of the status is longer than the root,   *)
(* the Solr container has the chroot-creation post-start command, under    *)
(* every override of the user, a lifecycle of the user included; when the  *)
(* chroot has at most one character, there is no post-start command of the *)
(* operator.                                                               *)
(***************************************************************************)
C25_PostStartUnderEveryOverride ==
    OutIs("StatefulSet") =>
        LET chroot == Get(out).args[1].ChRoot
            postStart == PostStartOf(Get(out).obj)
        IN  IF Len(chroot) > 1 THEN IsChrootPostStart(postStart)
            ELSE ~IsChrootPostStart(postStart)

\* Where the post-start command is and where it is not: without a lifecycle
\* of the user the container has the chroot-creation command exactly when
\* the chroot is longer than one character; with one, the lifecycle of the
\* container is the user's, whatever the chroot.
PostStartUnlessUserLifecycle ==
    OutIs("StatefulSet") =>
        LET sc == Get(out).solrCloud
            chroot == Get(out).args[1].ChRoot
            postStart == PostStartOf(Get(out).obj)
        IN  IF UserLifecycle(sc) # Nil
            THEN SolrContainerOf(Get(out).obj).Lifecycle = UserLifecycle(sc)
            ELSE IF Len(chroot) > 1 THEN IsChrootPostStart(postStart)
                 ELSE postStart = Nil

(***************************************************************************)
(* C26: a run of setup-zk writes the policy document only when the         *)
(* coordination service holds none at that moment (its content is shorter  *)
(* than 3 characters): a document that is present is never overwritten,    *)
(* whatever the interleaving of the pods and whatever the bootstrap secret *)
(* has become.                                                             *)
(***************************************************************************)
WritesSecurityJson(pod) ==
    PutSecurityJson(pod) /\ ShorterThan3(setup[pod].ZK_SECURITY_JSON)

C26_WrittenOnlyWhenNone ==
    [][\A pod \in Pods : WritesSecurityJson(pod) => ShorterThan3(zk.security)]_vars

\* One run after the other, the document is written only when none is
\* there, and a present one stays.
SequentialWrittenOnlyWhenNone ==
    [][\A pod \in Pods :
        PutSecurityJson(pod) =>
            IF ShorterThan3(zk.security)
            THEN zk'.security = setup[pod].SECURITY_JSON
            ELSE zk'.security = zk.security]_vars

(***************************************************************************)
(* Volume mounts of the workload                                           *)
(***************************************************************************)
\* the names a mount of the pod may use: the volumes of the pod and the
\* volume-claim templates
VolumeNamesOf(stateful) ==
    {VolumesOf(stateful)[i].Name : i \in DOMAIN VolumesOf(stateful)}
    \cup {stateful.Spec.VolumeClaimTemplates[i].ObjectMeta.Name :
            i \in DOMAIN stateful.Spec.VolumeClaimTemplates}

MountNamesOf(container) == {container.VolumeMounts[i].Name : i \in DOMAIN container.VolumeMounts}

PrepContainerOf(stateful) == stateful.Spec.Template.Spec.InitContainers[1]

\* mounts of the two containers that name no volume of the pod
DanglingMounts(stateful) ==
    (MountNamesOf(SolrContainerOf(stateful)) \cup MountNamesOf(PrepContainerOf(stateful)))
    \ VolumeNamesOf(stateful)

(***************************************************************************)
(* C27: in every workload GenerateStatefulSet returns, each volume mount   *)
(* of the Solr container and of the cp-solr-xml init container names a     *)
(* volume of the pod or a volume-claim template, the data mount under a    *)
(* claim template named otherwise than "data" and the mounts of managed    *)
(* repositories in the init container included.                            *)
(***************************************************************************)
C27_MountsNameVolumes ==
    OutIs("StatefulSet") =>
        /\ PrepContainerOf(Get(out).obj).Name = "cp-solr-xml"
        /\ DanglingMounts(Get(out).obj) = {}

\* The only mount that names no volume is the data mount, and it does so
\* exactly when the claim template has a name of its own other than "data".
OnlyDataMountDangles ==
    OutIs("StatefulSet") =>
        LET sc == Get(out).solrCloud
            renamed == /\ UsesPersistentStorage(sc)
                       /\ ClaimTemplateOf(sc).ObjectMeta.Name \notin {"", solrDataVolumeName}
        IN  DanglingMounts(Get(out).obj) = IF renamed THEN {solrDataVolumeName} ELSE {}

\* a workload with a managed repository, a mounted custom volume and the
\* secret of the probes, all mounts of which name a volume
MountsResolved ==
    /\ OutIs("StatefulSet")
    /\ \E i \in DOMAIN Get(out).solrCloud.Spec.BackupRepositories :
            IsRepoManaged(Get(out).solrCloud.Spec.BackupRepositories[i])
    /\ Cardinality(MountNamesOf(PrepContainerOf(Get(out).obj))) = 3
    /\ Cardinality(MountNamesOf(SolrContainerOf(Get(out).obj))) >= 4
    /\ DanglingMounts(Get(out).obj) = {}

(***************************************************************************)
(* Selector and pod labels of the workload                                 *)
(***************************************************************************)
SelectorOf(stateful) == stateful.Spec.Selector.MatchLabels
PodLabelsOf(stateful) == stateful.Spec.Template.Labels

SelectorMatchesPods(stateful) ==
    \A k \in DOMAIN SelectorOf(stateful) :
        /\ k \in DOMAIN PodLabelsOf(stateful)
        /\ PodLabelsOf(stateful)[k] = SelectorOf(stateful)[k]

\* the labels the pod options of the user give
CustomPodLabels(sc) ==
    IF sc.Spec.CustomSolrKubeOptions.PodOptions = Nil THEN EmptyMap
    ELSE Get(sc.Spec.CustomSolrKubeOptions.PodOptions).Labels

SelectorMatchesUnlessPodLabelsReuseKeys ==
    OutIs("StatefulSet") =>
        LET sc == Get(out).solrCloud
            selector == SelectorOf(Get(out).obj)
            reused == {k \in DOMAIN CustomPodLabels(sc) \cap DOMAIN selector :
                            CustomPodLabels(sc)[k] # selector[k]}
        IN  SelectorMatchesPods(Get(out).obj) <=> reused = {}

\* the labels of the SolrCloud and of the StatefulSet options reuse both
\* keys and the selector matches
ReservedKeysReusedOutsidePods ==
    /\ OutIs("StatefulSet")
    /\ {TechnologyLabelKey, InstanceLabelKey} \subseteq DOMAIN Get(out).solrCloud.Labels
    /\ CustomPodLabels(Get(out).solrCloud) = EmptyMap
    /\ SelectorMatchesPods(Get(out).obj)

CredentialsOf(pair) == pair[2].Data[SecurityJsonFile].authentication.credentials

(***************************************************************************)
(* C29: in one call of GenerateBasicAuthSecretWithBootstrap the password   *)
(* of the default client account in the basic-auth secret, and the         *)
(* passwords of admin and solr in the bootstrap secret, are the byte       *)
(* strings whose salted hashes the policy document of that call lists      *)
(* under the same user names; its credentials section has exactly those    *)
(* three users.                                                            *)
(***************************************************************************)
C29_SecretsVerifyAgainstPolicy ==
    OutIs("Secrets") =>
        LET pair == Get(out).obj
            credentials == CredentialsOf(pair)
        IN  /\ DOMAIN credentials = {"admin", DefaultBasicAuthUsername, "solr"}
            /\ Verifies(credentials[DefaultBasicAuthUsername], pair[1].Data[BasicAuthPasswordKey])
            /\ Verifies(credentials["admin"], pair[2].Data["admin"])
            /\ Verifies(credentials["solr"], pair[2].Data["solr"])

\* the secrets of a call whose three passwords differ from each other, so
\* that no credential verifies the password of another account
C29_Witness ==
    /\ OutIs("Secrets")
    /\ LET pair == Get(out).obj
           passwords == PasswordsOf(pair)
       IN  /\ \A i, j \in 1..3 : i # j => passwords[i] # passwords[j]
           /\ ~Verifies(CredentialsOf(pair)["admin"], pair[1].Data[BasicAuthPasswordKey])
           /\ ~Verifies(CredentialsOf(pair)["solr"], pair[2].Data["admin"])

(***************************************************************************)
(* SOLR_STOP_WAIT                                                          *)
(***************************************************************************)
\* strconv.ParseInt(text, 10, 64) of a decimal number
RECURSIVE ParseDigits(_)
ParseDigits(text) ==
    IF Len(text) = 0 THEN 0
    ELSE 10 * ParseDigits(SubSeq(text, 1, Len(text) - 1)) + (text[Len(text)] - 48)
ParseInt(text) == IF text[1] = 45 THEN -ParseDigits(Tail(text)) ELSE ParseDigits(text)

\* the value of the first variable of that name in the environment
EnvValue(container, name) ==
    container.Env[CHOOSE i \in DOMAIN container.Env :
                    /\ container.Env[i].Name = name
                    /\ \A j \in 1..(i - 1) : container.Env[j].Name # name].Value

StopWaitOf(stateful) == ParseInt(EnvValue(SolrContainerOf(stateful), "SOLR_STOP_WAIT"))
GraceOf(stateful) == stateful.Spec.Template.Spec.TerminationGracePeriodSeconds

\* the grace period the user gave, if any
UserGrace(sc) ==
    IF sc.Spec.CustomSolrKubeOptions.PodOptions = Nil THEN Nil
    ELSE Get(sc.Spec.CustomSolrKubeOptions.PodOptions).TerminationGracePeriodSeconds

Max(a, b) == IF a >= b THEN a ELSE b

(***************************************************************************)
(* C30: the SOLR_STOP_WAIT of the Solr container is max(0, grace - 5),     *)
(* the grace period being 60 unless the user gives one; so it is never     *)
(* negative under any grace period of the user, and under a non-negative   *)
(* grace period never above the grace period of the pod.                   *)
(***************************************************************************)
C30_StopWaitIsGraceLessFive ==
    OutIs("StatefulSet") =>
        LET sc == Get(out).solrCloud
            grace == IF UserGrace(sc) # Nil THEN Get(UserGrace(sc)) ELSE 60
            stopWait == StopWaitOf(Get(out).obj)
        IN  /\ GraceOf(Get(out).obj) = grace
            /\ stopWait = Max(0, grace - 5)
            /\ stopWait >= 0
            /\ grace >= 0 => stopWait <= GraceOf(Get(out).obj)

\* SOLR_STOP_WAIT is never negative and, under a non-negative grace period,
\* never above it; it is max(0, grace - 5) but for the five smallest
\* integers, where grace - 5 wraps around to the largest ones.
StopWaitButForWrapAround ==
    OutIs("StatefulSet") =>
        LET grace == GraceOf(Get(out).obj)
            stopWait == StopWaitOf(Get(out).obj)
        IN  /\ stopWait >= 0
            /\ grace >= 0 => stopWait <= grace
            /\ IF grace >= MinInt + 5 THEN stopWait = Max(0, grace - 5)
               ELSE stopWait = grace - 5 + 2 ^ IntBits

\* the grace period of the user is below 5: the stop wait is 0
StopWaitClamped ==
    /\ OutIs("StatefulSet")
    /\ UserGrace(Get(out).solrCloud) = Some(4)
    /\ GraceOf(Get(out).obj) = 4
    /\ StopWaitOf(Get(out).obj) = 0

====
